---- MODULE Spec2Model ----
(***************************************************************************)
(* The GGUF bridge of gollek: the conversion context of gguf_bridge.cpp,   *)
(* its lifecycle (create, validate, convert, cancel, get_progress, free),  *)
(* the thread-local last-error text and the dispatch to the two backends.  *)
(*                                                                         *)
(* Floats are modelled in percent: 0.0f is 0, 0.1f is 10, 1.0f is 100 and  *)
(* the sentinel -1.0f is -100.  A C string is a TLA+ string; a text built  *)
(* by concatenation is the pair <<fixed part, variable part>>.             *)
(***************************************************************************)
EXTENDS Integers, Sequences, FiniteSets, TLC

\* ------------------------------------------------------------------------
\* Bounds of the model
\* ------------------------------------------------------------------------
\* how many contexts can be allocated at the same time
MaxCtx == 1

\* ------------------------------------------------------------------------
\* Result codes (gguf_error_code_t)
\* ------------------------------------------------------------------------
GGUF_SUCCESS == 0
GGUF_ERROR_INVALID_ARGS == -1
GGUF_ERROR_FILE_NOT_FOUND == -2
GGUF_ERROR_INVALID_FORMAT == -3
GGUF_ERROR_CONVERSION_FAILED == -4
GGUF_ERROR_CANCELLED == -6
GGUF_ERROR_INVALID_QUANTIZATION == -8
GGUF_ERROR_IO_ERROR == -9

\* The null pointer, for strings and for handles.
NULL == "<null>"
\* The content of a caller buffer that the caller has freed.
FREED == "<freed>"

\* QUANTIZATION_TYPES[], without its nullptr terminator
QUANTIZATION_TYPES ==
    << "f32", "f16", "q4_0", "q4_1", "q5_0", "q5_1", "q8_0", "q8_1",
       "q2_k", "q3_k_s", "q3_k_m", "q3_k_l", "q4_k_s", "q4_k_m",
       "q5_k_s", "q5_k_m", "q6_k" >>

\* ------------------------------------------------------------------------
\* The filesystem the bridge probes (read-only for the bridge).
\* An fs::path is the sequence of its components: <<"hf">> is the directory
\* hf of the working directory and <<"hf", "config.json">> a file in it.
\* ------------------------------------------------------------------------
FsDirs ==
    { <<"hf">>, <<"pt">>, <<"d.gguf">>, <<"g.gguf">>, <<"st">>, <<"sh">>,
      <<"tf">>, <<"lk">>, <<"e">>,
      <<"h5">>, <<"fx">>, <<"ptf">>, <<"tfx">>, <<"d.bin">>, <<"e.bin">> }

FsFiles ==
    { <<"m.gguf">>, <<"w.bin">>, <<"w.pt">>, <<"x.txt">>, <<"bad.gguf">>,
      <<"locked.gguf">>,
      <<"hf", "model.safetensors">>, <<"hf", "pytorch_model.bin">>,
      <<"hf", "config.json">>,
      <<"pt", "pytorch_model.bin">>, <<"pt", "config.json">>,
      <<"d.gguf", "flax_model.msgpack">>,
      <<"g.gguf", "model.safetensors">>, <<"g.gguf", "pytorch_model.bin">>,
      <<"st", "model.safetensors">>,
      <<"sh", "pytorch_model-00001-of-00002.bin">>,
      <<"tf", "saved_model.pb">>,
      <<"lk", "pytorch_model.bin">>, <<"lk", "config.json">>,
      <<"w.pth">>, <<"w.safetensors">>, <<"w.h5">>, <<"w.pb">>, <<"w.msgpack">>,
      <<"h5", "tf_model.h5">>,
      <<"fx", "flax_model.msgpack">>,
      <<"ptf", "pytorch_model.bin">>, <<"ptf", "saved_model.pb">>,
      <<"tfx", "saved_model.pb">>, <<"tfx", "flax_model.msgpack">>,
      <<"d.bin", "flax_model.msgpack">> }

\* config.json files in which the value of hidden_size is not a number
FsBadConfigs == { <<"pt", "config.json">> }

\* files that exist and cannot be opened for reading
FsUnreadable == { <<"locked.gguf">>, <<"lk", "config.json">> }

\* fs::path(const char*): the empty string is the empty path
Path(s) == IF s = "" THEN << >> ELSE << s >>

\* fs::exists
Exists(p) == p \in FsDirs \/ p \in FsFiles

\* fs::is_directory
IsDirectory(p) == p \in FsDirs

\* operator/ of fs::path
Child(p, name) == Append(p, name)

\* fs::path::parent_path
ParentPath(p) == IF p = << >> THEN << >> ELSE SubSeq(p, 1, Len(p) - 1)

\* fs::path::extension().string(), over the file names the model uses
Extension(p) ==
    IF p = << >> THEN ""
    ELSE LET name == p[Len(p)]
         IN  CASE name \in { "m.gguf", "d.gguf", "g.gguf", "bad.gguf",
                              "locked.gguf", "gone.gguf" } -> ".gguf"
               [] name \in { "w.bin", "pytorch_model.bin",
                              "pytorch_model-00001-of-00002.bin",
                              "d.bin", "e.bin", "gone.bin" } -> ".bin"
               [] name \in { "saved_model.pb", "w.pb" } -> ".pb"
               [] name = "w.pt"  -> ".pt"
               [] name = "w.pth" -> ".pth"
               [] name = "x.txt" -> ".txt"
               [] name \in { "model.safetensors", "w.safetensors" } -> ".safetensors"
               [] name \in { "tf_model.h5", "w.h5" } -> ".h5"
               [] name = "config.json" -> ".json"
               [] name \in { "flax_model.msgpack", "w.msgpack" } -> ".msgpack"
               [] OTHER -> ""

\* The magic literal of a GGUF file, byte by byte
GGUF_MAGIC == << "G", "G", "U", "F" >>

\* The first four bytes of a regular file.
Magic(p) ==
    CASE p \in { <<"m.gguf">>, <<"w.bin">> } -> GGUF_MAGIC
      [] p = <<"bad.gguf">> -> << "G", "G", "U", "X" >>
      [] p = <<"w.pt">> -> << "g", "g", "u", "f" >>
      [] p = <<"x.txt">> -> << "F", "U", "G", "G" >>
      [] OTHER -> << "X", "X", "X", "X" >>

\* the comparison over the first three bytes only
magic_matches_short(magic) ==
    \A i \in 1 .. Len(GGUF_MAGIC) - 1 : magic[i] = GGUF_MAGIC[i]

\* strncmp(magic, "GGUF", 4) == 0
magic_matches(magic) ==
    \A i \in 1 .. Len(GGUF_MAGIC) : magic[i] = GGUF_MAGIC[i]

\* detection that looks into a directory before it looks at the extension
detect_format_dir_first(path) ==
    IF ~Exists(path) THEN ""
    ELSE IF IsDirectory(path) /\ Exists(Child(path, "model.safetensors"))
         THEN "safetensors"
    ELSE IF IsDirectory(path) /\ Exists(Child(path, "pytorch_model.bin"))
         THEN "pytorch"
    ELSE IF Extension(path) = ".gguf" THEN "gguf"
    ELSE ""

\* detection that tests pytorch_model.bin before model.safetensors
detect_format_pytorch_first(path) ==
    IF ~Exists(path) THEN ""
    ELSE IF Extension(path) = ".gguf" THEN "gguf"
    ELSE IF IsDirectory(path) /\ Exists(Child(path, "pytorch_model.bin"))
         THEN "pytorch"
    ELSE IF IsDirectory(path) /\ Exists(Child(path, "model.safetensors"))
         THEN "safetensors"
    ELSE ""

\* detection that tries the extensions before it looks into a directory
detect_format_ext_first(path) ==
    IF ~Exists(path) THEN ""
    ELSE IF Extension(path) = ".gguf" THEN "gguf"
    ELSE IF Extension(path) \in { ".bin", ".pt", ".pth" } THEN "pytorch"
    ELSE IF Extension(path) = ".safetensors" THEN "safetensors"
    ELSE IF Extension(path) \in { ".h5", ".pb" } THEN "tensorflow"
    ELSE IF Extension(path) = ".msgpack" THEN "flax"
    ELSE IF IsDirectory(path)
            /\ ( Exists(Child(path, "pytorch_model.bin"))
                 \/ Exists(Child(path, "model.safetensors"))
                 \/ Exists(Child(path, "pytorch_model-00001-of-00002.bin")) )
         THEN IF Exists(Child(path, "model.safetensors"))
              THEN "safetensors" ELSE "pytorch"
    ELSE IF IsDirectory(path)
            /\ ( Exists(Child(path, "saved_model.pb"))
                 \/ Exists(Child(path, "tf_model.h5")) )
         THEN "tensorflow"
    ELSE IF IsDirectory(path) /\ Exists(Child(path, "flax_model.msgpack"))
         THEN "flax"
    ELSE ""

\* detect_format_impl
detect_format_impl(path) ==
    IF ~Exists(path) THEN ""
    ELSE IF Extension(path) = ".gguf" THEN "gguf"
    ELSE IF IsDirectory(path)
            /\ ( Exists(Child(path, "pytorch_model.bin"))
                 \/ Exists(Child(path, "model.safetensors"))
                 \/ Exists(Child(path, "pytorch_model-00001-of-00002.bin")) )
         THEN IF Exists(Child(path, "model.safetensors"))
              THEN "safetensors" ELSE "pytorch"
    ELSE IF IsDirectory(path)
            /\ ( Exists(Child(path, "saved_model.pb"))
                 \/ Exists(Child(path, "tf_model.h5")) )
         THEN "tensorflow"
    ELSE IF IsDirectory(path) /\ Exists(Child(path, "flax_model.msgpack"))
         THEN "flax"
    ELSE IF Extension(path) \in { ".bin", ".pt", ".pth" } THEN "pytorch"
    ELSE IF Extension(path) = ".safetensors" THEN "safetensors"
    ELSE IF Extension(path) \in { ".h5", ".pb" } THEN "tensorflow"
    ELSE IF Extension(path) = ".msgpack" THEN "flax"
    ELSE ""

\* The config.json extract_model_info reads for the input `path`
ConfigPath(path) ==
    IF IsDirectory(path) THEN Child(path, "config.json")
    ELSE Child(ParentPath(path), "config.json")

\* extract_model_info that treats a missing config.json as a fault
extract_model_info_strict(path) ==
    IF ~Exists(ConfigPath(path)) THEN "throws"
    ELSE IF ConfigPath(path) \in FsUnreadable THEN "false"
    ELSE IF ConfigPath(path) \in FsBadConfigs THEN "throws"
    ELSE "true"

\* extract_model_info: "false" (there is no config.json, or it cannot be
\* opened), "true", or "throws" (std::stoul on a value that is not a number
\* throws std::invalid_argument, and nothing in the function catches it)
extract_model_info(path) ==
    IF ~Exists(ConfigPath(path)) THEN "false"
    ELSE IF ConfigPath(path) \in FsUnreadable THEN "false"
    ELSE IF ConfigPath(path) \in FsBadConfigs THEN "throws"
    ELSE "true"

\* ------------------------------------------------------------------------
\* State
\* ------------------------------------------------------------------------
Threads == { "t1", "t2" }

\* Handles: 0 is the null handle, 1..MaxCtx are the contexts new can return.
Ctxs == 1 .. MaxCtx
NullHandle == 0

VARIABLES
    caller,         \* the caller's gguf_conversion_params_t with its buffers
    alive,          \* alive[c]: context c is allocated
    params,         \* params[c]: ctx->params; a string field is a pointer
    progress,       \* progress[c]: ctx->progress, in percent
    cancelled,      \* cancelled[c]: ctx->cancelled
    current_stage,  \* current_stage[c]: ctx->current_stage
    g_last_error,   \* g_last_error[t]: the thread_local std::string
    pc,             \* pc[t]: where thread t is inside gguf_convert, or "idle"
    cur,            \* cur[t]: the context of t's current/last validate/convert
    ret,            \* ret[t]: the last call thread t made and its outcome
    backendLog,     \* backendLog[t]: backend calls of t's current/last convert
    lastCmd,        \* lastCmd[t]: arguments of t's last backend invocation
    call,           \* call[t]: what t's current/last convert call saw
    job,            \* job[c]: state of the job of context c (section 4.3)
    orig,           \* orig[c]: the parameter values create was called with
    ownText,        \* ownText[t]: text of the latest failing call made by t
    written,        \* output paths a backend has written to
    crashed,        \* the process was terminated (signal or std::terminate)
    format_str,     \* format_str[t]: the thread_local string of gguf_detect_format
    info,           \* info[t]: what t's current/last call stored through info
    events          \* events[t]: callbacks invoked by t's current/last call

ctxVars == << alive, params, progress, cancelled, current_stage, job, orig >>
thrVars == << g_last_error, pc, cur, ret, backendLog, lastCmd,
              call, ownText >>
outVars == << format_str, info, events >>
vars == << caller, ctxVars, thrVars, written, crashed, outVars >>

\* The fields of gguf_conversion_params_t that are C strings.
StringFields ==
    { "input_path", "output_path", "model_type", "quantization", "vocab_type" }

\* A pointer to a string: null, a buffer the context owns (with its
\* content), or the caller's buffer for a field.
NullPtr == << "null", "" >>
OwnPtr(s) == << "own", s >>
CallerPtr(f) == << "caller", f >>

\* The string a pointer points to, NULL for the null pointer.  Reading a
\* buffer the caller freed yields FREED.
Deref(ptr) ==
    CASE ptr[1] = "null" -> NULL
      [] ptr[1] = "own" -> ptr[2]
      [] OTHER -> caller[ptr[2]]

\* The empty std::string
NoText == << "", "" >>

NoRet == [ op |-> "none", how |-> "none", code |-> 0 ]
Returned(op, code) == [ op |-> op, how |-> "returned", code |-> code ]
Threw(op) == [ op |-> op, how |-> "threw", code |-> 0 ]

NoCmd == [ backend |-> "none", input |-> "", output |-> "", outtype |-> "",
           vocab_only |-> 0, model_type |-> "", threads |-> 0 ]

\* cancelled, quant, input: the flag and the strings of the context when
\* the call began (input: the path argument of a call that takes a path);
\* exit_cancelled: the flag when it returned; wrote: its backend wrote the
\* output file; result: what its backend returned (-1: nothing yet);
\* size_fails: the size of the input could not be read during the call.
NoCall == [ cancelled |-> FALSE, quant |-> "", input |-> "",
            exit_cancelled |-> FALSE, wrote |-> FALSE, result |-> -1,
            size_fails |-> FALSE ]

NoParams == [ f \in StringFields |-> NullPtr ]
             @@ [ vocab_only |-> 0, num_threads |-> 0,
                  log_cb |-> FALSE, progress_cb |-> FALSE ]

\* gguf_model_info_t as a call leaves it: written (the memset ran),
\* from_config (the fields of config.json were stored), has_size (file_size
\* was stored), model_type; every field not stored is zero or empty.
NoInfo == [ written |-> FALSE, from_config |-> FALSE, has_size |-> FALSE,
            model_type |-> "" ]

\* The info struct after memset(info, 0, sizeof(gguf_model_info_t))
ZeroInfo == [ NoInfo EXCEPT !.written = TRUE ]

\* a log message that is handed to the progress callback
log_through_progress_cb(level, fixed, var) ==
    [ cb |-> "progress", num |-> level, text |-> << fixed, var >> ]

\* One invocation of the log callback and of the progress callback
Log(level, fixed, var) ==
    [ cb |-> "log", num |-> level, text |-> << fixed, var >> ]
Progress(p, stage) ==
    [ cb |-> "progress", num |-> p, text |-> << stage, "" >> ]

NoOrig == [ f \in StringFields |-> NULL ]

\* gguf_default_params: everything zero, quantization "f16"
gguf_default_params ==
    [ input_path |-> NULL, output_path |-> NULL, model_type |-> NULL,
      quantization |-> "f16", vocab_type |-> NULL,
      vocab_only |-> 0, num_threads |-> 0,
      log_cb |-> FALSE, progress_cb |-> FALSE ]

\* ------------------------------------------------------------------------
\* Helpers of the bridge
\* ------------------------------------------------------------------------
\* g_last_error without thread_local: one string for all threads
set_error_shared(t, msg) == g_last_error' = [ u \in Threads |-> msg ]

\* set_error: g_last_error of the calling thread becomes msg
set_error(t, msg) == g_last_error' = [ g_last_error EXCEPT ![t] = msg ]

\* A call of thread t ends in a failure: set_error(msg), then return code.
Fail(t, op, code, msg) ==
    /\ set_error(t, msg)
    /\ ownText' = [ ownText EXCEPT ![t] = msg ]
    /\ ret' = [ ret EXCEPT ![t] = Returned(op, code) ]

\* A call of thread t returns code without touching the error text.
Return(t, op, code) ==
    /\ ret' = [ ret EXCEPT ![t] = Returned(op, code) ]
    /\ UNCHANGED << g_last_error, ownText >>

\* set_progress that forgets progress.store(p)
set_progress_no_store(c, p, stage) ==
    /\ UNCHANGED progress
    /\ current_stage' = [ current_stage EXCEPT ![c] = stage ]

\* gguf_conversion_ctx::set_progress: the stores (the callback is the
\* Progress event of the same step)
set_progress(c, p, stage) ==
    /\ progress' = [ progress EXCEPT ![c] = p ]
    /\ current_stage' = [ current_stage EXCEPT ![c] = stage ]

\* the struct copy alone: the context keeps the caller's pointer
KeepPointer(f, s) == IF s = NULL THEN NullPtr ELSE CallerPtr(f)

\* strdup of the caller's string for field f (a null pointer stays null)
CopyString(f, s) == IF s = NULL THEN NullPtr ELSE OwnPtr(s)

\* the flag flipped instead of set
cancel_toggle(c) == cancelled' = [ cancelled EXCEPT ![c] = ~@ ]

\* ctx->cancelled.store(true)
cancel_store(c) == cancelled' = [ cancelled EXCEPT ![c] = TRUE ]

\* The value gguf_is_cancelled returns for handle h
gguf_is_cancelled(h) ==
    IF h = NullHandle THEN 0 ELSE IF cancelled[h] THEN 1 ELSE 0

\* gguf_get_progress without the sentinel
get_progress_zero(h) == IF h = NullHandle THEN 0 ELSE progress[h]

\* The value gguf_get_progress returns for handle h
gguf_get_progress(h) == IF h = NullHandle THEN -100 ELSE progress[h]

\* The text gguf_get_last_error returns on thread t
gguf_get_last_error(t) == g_last_error[t]

\* Thread t makes a call that sees `seen`; h is the context it validates
\* (NullHandle in every other call).  The record of t's last call is dropped.
NewCallWith(t, h, seen) ==
    /\ cur' = [ cur EXCEPT ![t] = h ]
    /\ backendLog' = [ backendLog EXCEPT ![t] = << >> ]
    /\ lastCmd' = [ lastCmd EXCEPT ![t] = NoCmd ]
    /\ call' = [ call EXCEPT ![t] = seen ]

NewCall(t, h) == NewCallWith(t, h, NoCall)

\* The callbacks among evs that context c has registered (log_cb and
\* progress_cb may be null); there is no context behind the null handle.
Delivered(c, evs) ==
    IF c = NullHandle THEN << >>
    ELSE SelectSeq(evs, LAMBDA e : IF e.cb = "log" THEN params[c].log_cb
                                   ELSE params[c].progress_cb)

\* The first callbacks of a call of thread t on context c, and later ones
EmitNew(t, c, evs) == events' = [ events EXCEPT ![t] = Delivered(c, evs) ]
Emit(t, c, evs) == events' = [ events EXCEPT ![t] = @ \o Delivered(c, evs) ]

\* What a call of thread t stores through its info pointer
SetInfo(t, v) == info' = [ info EXCEPT ![t] = v ]

\* A call of thread t that invokes no callback and stores no info
Silent(t) ==
    /\ EmitNew(t, NullHandle, << >>)
    /\ SetInfo(t, NoInfo)
    /\ UNCHANGED format_str

\* No thread is inside a call on context c.
Quiet(c) == \A u \in Threads : pc[u] # "idle" => cur[u] # c

\* Thread t can start a call: the process runs and t is in no call.
CanCall(t) == ~crashed /\ pc[t] = "idle"

\* h is a handle a caller may pass: null, or a context that is allocated.
ValidHandle(h) == h = NullHandle \/ (h \in Ctxs /\ alive[h])

\* ------------------------------------------------------------------------
\* The caller
\* ------------------------------------------------------------------------
\* The caller fills in its parameter struct.
CallerPrepare(p) ==
    /\ ~crashed
    /\ caller' = p
    /\ UNCHANGED << ctxVars, thrVars, written, crashed, outVars >>

\* The caller frees the buffer of string field f.
CallerFree(f) ==
    /\ ~crashed
    /\ caller[f] \notin { NULL, FREED }
    /\ caller' = [ caller EXCEPT ![f] = FREED ]
    /\ UNCHANGED << ctxVars, thrVars, written, crashed, outVars >>

\* ------------------------------------------------------------------------
\* gguf_create_context, gguf_free_context
\* ------------------------------------------------------------------------
\* the argument test without the test of output_path
invalid_params_input_only(hasParams) ==
    ~hasParams \/ caller.input_path = NULL

\* !params || !params->input_path || !params->output_path
invalid_params(hasParams) ==
    ~hasParams \/ caller.input_path = NULL \/ caller.output_path = NULL

gguf_create_context(t, hasParams) ==
    /\ CanCall(t)
    /\ NewCall(t, NullHandle)
    /\ \A f \in StringFields : caller[f] # FREED
    /\ IF invalid_params(hasParams)
       THEN /\ Fail(t, "create", NullHandle,
                    << "Invalid parameters: input_path and output_path are required", "" >>)
            /\ Silent(t)
            /\ UNCHANGED << caller, ctxVars, pc, written, crashed >>
       ELSE IF ~Exists(Path(caller.input_path))
       THEN /\ Fail(t, "create", NullHandle,
                    << "Input path not found: ", caller.input_path >>)
            /\ Silent(t)
            /\ UNCHANGED << caller, ctxVars, pc, written, crashed >>
       ELSE \E c \in Ctxs :
            /\ ~alive[c]
            /\ alive' = [ alive EXCEPT ![c] = TRUE ]
            /\ params' = [ params EXCEPT ![c] =
                   [ f \in StringFields |-> CopyString(f, caller[f]) ]
                   @@ [ vocab_only |-> caller.vocab_only,
                        num_threads |-> caller.num_threads,
                        log_cb |-> caller.log_cb,
                        progress_cb |-> caller.progress_cb ] ]
            /\ progress' = [ progress EXCEPT ![c] = 0 ]
            /\ cancelled' = [ cancelled EXCEPT ![c] = FALSE ]
            /\ current_stage' = [ current_stage EXCEPT ![c] = "" ]
            /\ job' = [ job EXCEPT ![c] = "created" ]
            /\ orig' = [ orig EXCEPT ![c] = [ f \in StringFields |-> caller[f] ] ]
            /\ Return(t, "create", c)
            \* ctx->log(1, "Created conversion context: " + input + " -> " + output)
            /\ events' = [ events EXCEPT ![t] =
                   IF caller.log_cb
                   THEN << Log(1, "Created conversion context: ", caller.input_path) >>
                   ELSE << >> ]
            /\ SetInfo(t, NoInfo)
            /\ UNCHANGED << caller, pc, written, crashed, format_str >>

gguf_free_context(t, h) ==
    /\ CanCall(t)
    /\ NewCall(t, NullHandle)
    /\ ValidHandle(h)
    /\ IF h = NullHandle
       THEN UNCHANGED ctxVars
       ELSE /\ Quiet(h)
            /\ alive' = [ alive EXCEPT ![h] = FALSE ]
            /\ params' = [ params EXCEPT ![h] = NoParams ]
            /\ progress' = [ progress EXCEPT ![h] = 0 ]
            /\ cancelled' = [ cancelled EXCEPT ![h] = FALSE ]
            /\ current_stage' = [ current_stage EXCEPT ![h] = "" ]
            /\ job' = [ job EXCEPT ![h] = "none" ]
            /\ orig' = [ orig EXCEPT ![h] = NoOrig ]
    /\ Return(t, "free", 0)
    /\ Silent(t)
    /\ UNCHANGED << caller, pc, written, crashed >>

\* ------------------------------------------------------------------------
\* gguf_cancel, gguf_is_cancelled, gguf_get_progress, gguf_clear_error
\* ------------------------------------------------------------------------
gguf_cancel(t, h) ==
    /\ CanCall(t)
    /\ NewCall(t, NullHandle)
    /\ ValidHandle(h)
    /\ IF h = NullHandle THEN UNCHANGED cancelled ELSE cancel_store(h)
    /\ EmitNew(t, h, << Log(2, "Cancellation requested", "") >>)
    /\ SetInfo(t, NoInfo)
    /\ UNCHANGED format_str
    /\ Return(t, "cancel", 0)
    /\ UNCHANGED << caller, alive, params, progress, current_stage, job, orig,
                    pc, written, crashed >>

IsCancelled(t, h) ==
    /\ CanCall(t)
    /\ NewCall(t, NullHandle)
    /\ ValidHandle(h)
    /\ Return(t, "is_cancelled", gguf_is_cancelled(h))
    /\ Silent(t)
    /\ UNCHANGED << caller, ctxVars, pc, written, crashed >>

GetProgress(t, h) ==
    /\ CanCall(t)
    /\ NewCall(t, NullHandle)
    /\ ValidHandle(h)
    /\ Return(t, "get_progress", gguf_get_progress(h))
    /\ Silent(t)
    /\ UNCHANGED << caller, ctxVars, pc, written, crashed >>

gguf_clear_error(t) ==
    /\ CanCall(t)
    /\ NewCall(t, NullHandle)
    /\ g_last_error' = [ g_last_error EXCEPT ![t] = NoText ]
    /\ ownText' = [ ownText EXCEPT ![t] = NoText ]
    /\ ret' = [ ret EXCEPT ![t] = Returned("clear_error", 0) ]
    /\ Silent(t)
    /\ UNCHANGED << caller, ctxVars, pc, written, crashed >>

\* ------------------------------------------------------------------------
\* gguf_validate_input, gguf_verify_file
\* ------------------------------------------------------------------------
\* A C++ exception leaves an extern "C" function of the bridge: it reaches
\* a C++ caller as an exception, and ends the process (std::terminate) when
\* the caller's frames cannot be unwound.
Escapes(t, op) ==
    /\ ret' = [ ret EXCEPT ![t] = Threw(op) ]
    /\ crashed' \in BOOLEAN
    /\ UNCHANGED << g_last_error, ownText >>

gguf_validate_input(t, h, hasInfo, sizeFails) ==
    /\ CanCall(t)
    /\ ValidHandle(h)
    /\ sizeFails => (hasInfo /\ h # NullHandle)
    /\ NewCallWith(t, h, [ NoCall EXCEPT !.size_fails = sizeFails ])
    /\ IF h = NullHandle
       THEN /\ Fail(t, "validate", GGUF_ERROR_INVALID_ARGS, << "Invalid context", "" >>)
            /\ Silent(t)
            /\ UNCHANGED crashed
       ELSE LET input == Deref(params[h].input_path)
                format == detect_format_impl(Path(input))
                got == IF hasInfo THEN extract_model_info(Path(input)) ELSE "none"
                detected == << Log(1, "Detected format: ", format) >>
            IN  IF format = ""
                THEN /\ Fail(t, "validate", GGUF_ERROR_INVALID_FORMAT,
                             << "Could not detect model format from: ", input >>)
                     /\ Silent(t)
                     /\ UNCHANGED crashed
                ELSE IF got = "throws"
                THEN \* the memset ran, then std::stoul threw
                     /\ Escapes(t, "validate")
                     /\ EmitNew(t, h, detected)
                     /\ SetInfo(t, ZeroInfo)
                     /\ UNCHANGED format_str
                ELSE /\ Return(t, "validate", GGUF_SUCCESS)
                     /\ EmitNew(t, h,
                          detected
                          \o ( IF got = "false"
                               THEN << Log(2, "Warning: Could not extract full model info from config", "") >>
                               ELSE << >> )
                          \o ( IF hasInfo /\ sizeFails
                               THEN << Log(2, "Warning: Could not determine file size: ",
                                           "filesystem error") >>
                               ELSE << >> ))
                     /\ SetInfo(t, IF hasInfo
                                   THEN [ ZeroInfo EXCEPT !.from_config = (got = "true"),
                                                          !.has_size = ~sizeFails ]
                                   ELSE NoInfo)
                     /\ UNCHANGED << crashed, format_str >>
    /\ UNCHANGED << caller, ctxVars, pc, written >>

gguf_verify_file(t, path, hasInfo) ==
    /\ CanCall(t)
    /\ NewCallWith(t, NullHandle, [ NoCall EXCEPT !.input = path ])
    /\ EmitNew(t, NullHandle, << >>)
    /\ UNCHANGED format_str
    /\ IF path = NULL
       THEN /\ Fail(t, "verify_file", GGUF_ERROR_INVALID_ARGS, << "Invalid path", "" >>)
            /\ SetInfo(t, NoInfo)
            /\ UNCHANGED crashed
       ELSE IF ~Exists(Path(path))
       THEN /\ Fail(t, "verify_file", GGUF_ERROR_FILE_NOT_FOUND, << "File not found", "" >>)
            /\ SetInfo(t, NoInfo)
            /\ UNCHANGED crashed
       ELSE IF Path(path) \in FsUnreadable
       THEN /\ Fail(t, "verify_file", GGUF_ERROR_IO_ERROR, << "Could not open file", "" >>)
            /\ SetInfo(t, NoInfo)
            /\ UNCHANGED crashed
       ELSE \* a directory opens and the read of 4 bytes fails: magic[] is
            \* compared uninitialised, and fs::file_size of a directory throws
            \E magicOk \in IF IsDirectory(Path(path)) THEN BOOLEAN
                           ELSE { magic_matches(Magic(Path(path))) } :
               IF ~magicOk
               THEN /\ Fail(t, "verify_file", GGUF_ERROR_INVALID_FORMAT,
                            << "Invalid GGUF magic number", "" >>)
                    /\ SetInfo(t, NoInfo)
                    /\ UNCHANGED crashed
               ELSE IF hasInfo /\ IsDirectory(Path(path))
               THEN /\ Escapes(t, "verify_file")
                    /\ SetInfo(t, ZeroInfo)
               ELSE /\ Return(t, "verify_file", GGUF_SUCCESS)
                    /\ SetInfo(t, IF hasInfo
                                  THEN [ ZeroInfo EXCEPT !.has_size = TRUE,
                                                         !.model_type = "gguf" ]
                                  ELSE NoInfo)
                    /\ UNCHANGED crashed
    /\ UNCHANGED << caller, ctxVars, pc, written >>

\* gguf_detect_format: the tag is kept in format_str, and the call returns
\* a pointer to it (1) or the null pointer (0)
gguf_detect_format(t, path) ==
    /\ CanCall(t)
    /\ NewCallWith(t, NullHandle, [ NoCall EXCEPT !.input = path ])
    /\ EmitNew(t, NullHandle, << >>)
    /\ SetInfo(t, NoInfo)
    /\ IF path = NULL
       THEN /\ Return(t, "detect_format", 0)
            /\ UNCHANGED format_str
       ELSE /\ format_str' = [ format_str EXCEPT ![t] = detect_format_impl(Path(path)) ]
            /\ Return(t, "detect_format",
                      IF detect_format_impl(Path(path)) = "" THEN 0 ELSE 1)
    /\ UNCHANGED << caller, ctxVars, pc, written, crashed >>

\* ------------------------------------------------------------------------
\* gguf_convert, step by step (one step per access to shared state)
\* ------------------------------------------------------------------------
\* the loop comparing only the characters of q (a prefix match)
valid_quant_prefix(q) ==
    \/ \E i \in 1 .. Len(QUANTIZATION_TYPES) : QUANTIZATION_TYPES[i] = q
    \/ q \in { "", "q4_k" }

\* the loop stopping one entry early
valid_quant_short(q) ==
    \E i \in 1 .. Len(QUANTIZATION_TYPES) - 1 : QUANTIZATION_TYPES[i] = q

\* the loop accepting every identifier
valid_quant_any(q) == TRUE

\* The strcmp loop over QUANTIZATION_TYPES
valid_quant(q) ==
    \E i \in 1 .. Len(QUANTIZATION_TYPES) : QUANTIZATION_TYPES[i] = q

\* The string-to-llama_ftype chain of the quantization path
target_ftype(q) ==
    CASE q = "f32" -> "LLAMA_FTYPE_ALL_F32"
      [] q = "f16" -> "LLAMA_FTYPE_MOSTLY_F16"
      [] q = "q8_0" -> "LLAMA_FTYPE_MOSTLY_Q8_0"
      [] q = "q4_0" -> "LLAMA_FTYPE_MOSTLY_Q4_0"
      [] q = "q4_1" -> "LLAMA_FTYPE_MOSTLY_Q4_1"
      [] q = "q5_0" -> "LLAMA_FTYPE_MOSTLY_Q5_0"
      [] q = "q5_1" -> "LLAMA_FTYPE_MOSTLY_Q5_1"
      [] q = "q2_k" -> "LLAMA_FTYPE_MOSTLY_Q2_K"
      [] q = "q3_k_s" -> "LLAMA_FTYPE_MOSTLY_Q3_K_S"
      [] q = "q3_k_m" -> "LLAMA_FTYPE_MOSTLY_Q3_K_M"
      [] q = "q3_k_l" -> "LLAMA_FTYPE_MOSTLY_Q3_K_L"
      [] q = "q4_k_s" -> "LLAMA_FTYPE_MOSTLY_Q4_K_S"
      [] q = "q4_k_m" -> "LLAMA_FTYPE_MOSTLY_Q4_K_M"
      [] q = "q5_k_s" -> "LLAMA_FTYPE_MOSTLY_Q5_K_S"
      [] q = "q5_k_m" -> "LLAMA_FTYPE_MOSTLY_Q5_K_M"
      [] q = "q6_k" -> "LLAMA_FTYPE_MOSTLY_Q6_K"
      [] OTHER -> "LLAMA_FTYPE_MOSTLY_F16"

\* Exit statuses of system() and return values of llama_model_quantize
SystemResults == { 0, 256 }
QuantizeResults == { 0, 1 }

\* std::to_string over the statuses above
to_string(n) == CASE n = 0 -> "0" [] n = 1 -> "1" [] OTHER -> "256"

\* a backend result that also counts as a failure when the context is cancelled
backend_failed_or_cancelled(c, result) == result # 0 \/ cancelled[c]

\* if (result < 0): only a negative result counts as a failure
backend_failed_negative(c, result) == result < 0

\* if (result != 0): the backend's result alone decides
backend_failed(c, result) == result # 0

\* The backend call `name` is appended to the log of t's convert call.
Invoke(t, name) == backendLog' = [ backendLog EXCEPT ![t] = Append(@, name) ]

\* t's convert call on c ends: the thread is idle, the job is in `state`.
EndConvert(t, c, state, wrote, result) ==
    /\ pc' = [ pc EXCEPT ![t] = "idle" ]
    /\ job' = [ job EXCEPT ![c] = state ]
    /\ call' = [ call EXCEPT ![t].exit_cancelled = cancelled[c],
                             ![t].wrote = wrote,
                             ![t].result = result ]

\* Entry: the null check, set_progress(0.0f, "Initializing conversion") and
\* ctx->log(1, "Starting conversion..."); the thread goes on at `at`
ConvertEntry(t, h, at) ==
    /\ CanCall(t)
    /\ ValidHandle(h)
    /\ IF h = NullHandle
       THEN /\ Fail(t, "convert", GGUF_ERROR_INVALID_ARGS, << "Invalid context", "" >>)
            /\ NewCall(t, NullHandle)
            /\ EmitNew(t, NullHandle, << >>)
            /\ UNCHANGED << ctxVars, pc >>
       ELSE /\ Quiet(h)
            /\ set_progress(h, 0, "Initializing conversion")
            /\ pc' = [ pc EXCEPT ![t] = at ]
            /\ cur' = [ cur EXCEPT ![t] = h ]
            /\ ret' = [ ret EXCEPT ![t] = [ op |-> "convert", how |-> "running", code |-> 0 ] ]
            /\ backendLog' = [ backendLog EXCEPT ![t] = << >> ]
            /\ lastCmd' = [ lastCmd EXCEPT ![t] = NoCmd ]
            /\ call' = [ call EXCEPT ![t] =
                   [ NoCall EXCEPT !.cancelled = cancelled[h],
                                   !.quant = Deref(params[h].quantization),
                                   !.input = Deref(params[h].input_path) ] ]
            /\ job' = [ job EXCEPT ![h] = "converting" ]
            /\ EmitNew(t, h, << Progress(0, "Initializing conversion"),
                                Log(1, "Starting conversion...", "") >>)
            /\ UNCHANGED << alive, params, cancelled, orig, g_last_error, ownText >>
    /\ SetInfo(t, NoInfo)
    /\ UNCHANGED << caller, written, crashed, format_str >>

\* gguf_convert when an exception is raised in the try block before the
\* cancellation check: progress.store(0.0f) has run; the exception comes
\* from set_progress before its callback (the lock, the assignment of the
\* stage) or, with `reported`, from building the message of line 313 after
\* the progress callback returned.  The catch block sets the error text,
\* logs it, calls llama_backend_free() and returns.
gguf_convert_throws(t, h, reported) ==
    /\ CanCall(t)
    /\ ValidHandle(h)
    /\ h # NullHandle
    /\ Quiet(h)
    /\ progress' = [ progress EXCEPT ![h] = 0 ]
    /\ current_stage' = [ current_stage EXCEPT ![h] =
           IF reported THEN "Initializing conversion" ELSE @ ]
    /\ cur' = [ cur EXCEPT ![t] = h ]
    /\ lastCmd' = [ lastCmd EXCEPT ![t] = NoCmd ]
    /\ call' = [ call EXCEPT ![t] =
           [ NoCall EXCEPT !.cancelled = cancelled[h],
                           !.exit_cancelled = cancelled[h],
                           !.quant = Deref(params[h].quantization),
                           !.input = Deref(params[h].input_path) ] ]
    /\ Fail(t, "convert", GGUF_ERROR_CONVERSION_FAILED,
            << "Conversion error: ", "std::bad_alloc" >>)
    /\ EmitNew(t, h,
           ( IF reported THEN << Progress(0, "Initializing conversion") >>
             ELSE << >> )
           \o << Log(3, "Conversion error: ", "std::bad_alloc") >>)
    /\ backendLog' = [ backendLog EXCEPT ![t] = << "llama_backend_free" >> ]
    /\ job' = [ job EXCEPT ![h] = "failed" ]
    /\ SetInfo(t, NoInfo)
    /\ UNCHANGED << caller, alive, params, cancelled, orig, pc, written,
                    crashed, format_str >>

\* gguf_convert, with both callbacks of its entry taken as instantaneous
gguf_convert(t, h) == ConvertEntry(t, h, "check")

\* gguf_convert up to the moment its log callback (line 313) is entered:
\* the thread is inside the user's callback until the callback returns
gguf_convert_in_log(t, h) ==
    /\ h # NullHandle
    /\ ValidHandle(h)
    /\ params[h].log_cb
    /\ ConvertEntry(t, h, "start_log")

\* The log callback of line 313 returns to gguf_convert.
ConvertLogReturns(t) ==
    /\ ~crashed
    /\ pc[t] = "start_log"
    /\ pc' = [ pc EXCEPT ![t] = "check" ]
    /\ UNCHANGED << caller, ctxVars, g_last_error, cur, ret, backendLog,
                    lastCmd, call, ownText, written, crashed, outVars >>

\* gguf_cancel up to the moment its log callback (line 451) is entered: the
\* flag is stored, and the thread is inside the user's callback
gguf_cancel_in_log(t, h) ==
    /\ CanCall(t)
    /\ ValidHandle(h)
    /\ h # NullHandle
    /\ params[h].log_cb
    /\ cancel_store(h)
    /\ pc' = [ pc EXCEPT ![t] = "cancel_log" ]
    /\ NewCall(t, h)
    /\ ret' = [ ret EXCEPT ![t] = [ op |-> "cancel", how |-> "running", code |-> 0 ] ]
    /\ EmitNew(t, h, << Log(2, "Cancellation requested", "") >>)
    /\ SetInfo(t, NoInfo)
    /\ UNCHANGED << caller, alive, params, progress, current_stage, job, orig,
                    g_last_error, ownText, written, crashed, format_str >>

\* The log callback of line 451 returns, and gguf_cancel returns.
CancelLogReturns(t) ==
    /\ ~crashed
    /\ pc[t] = "cancel_log"
    /\ pc' = [ pc EXCEPT ![t] = "idle" ]
    /\ Return(t, "cancel", 0)
    /\ UNCHANGED << caller, ctxVars, cur, backendLog, lastCmd, call, written,
                    crashed, outVars >>

\* the cancellation check left out
cancel_not_checked(c) == FALSE

\* ctx->cancelled.load() of the cancellation check
cancel_requested(c) == cancelled[c]

\* The cancellation check and the validation of the quantization type
ConvertCheck(t) ==
    /\ ~crashed
    /\ pc[t] = "check"
    /\ LET c == cur[t]
           q == Deref(params[c].quantization)
       IN  IF cancel_requested(c)
           THEN /\ Fail(t, "convert", GGUF_ERROR_CANCELLED, << "Conversion cancelled", "" >>)
                /\ EndConvert(t, c, "cancelled", FALSE, -1)
                /\ UNCHANGED crashed
           ELSE IF q = NULL
           THEN \* strcmp reads through the null pointer
                /\ crashed' = TRUE
                /\ ret' = [ ret EXCEPT ![t] = [ op |-> "convert", how |-> "signal", code |-> 0 ] ]
                /\ UNCHANGED << pc, job, call, g_last_error, ownText >>
           ELSE IF ~valid_quant(q)
           THEN /\ Fail(t, "convert", GGUF_ERROR_INVALID_QUANTIZATION,
                        << "Invalid quantization type: ", q >>)
                /\ EndConvert(t, c, "failed", FALSE, -1)
                /\ UNCHANGED crashed
           ELSE /\ pc' = [ pc EXCEPT ![t] = "load" ]
                /\ UNCHANGED << ret, call, g_last_error, ownText, job, crashed >>
    /\ UNCHANGED << caller, alive, params, progress, cancelled, current_stage,
                    orig, cur, backendLog, lastCmd, written, outVars >>

\* set_progress(0.1f, "Loading model"); llama_backend_init()
ConvertLoad(t) ==
    /\ ~crashed
    /\ pc[t] = "load"
    /\ set_progress(cur[t], 10, "Loading model")
    /\ Invoke(t, "llama_backend_init")
    /\ pc' = [ pc EXCEPT ![t] = "dispatch" ]
    /\ Emit(t, cur[t], << Progress(10, "Loading model") >>)
    /\ UNCHANGED << caller, alive, params, cancelled, job, orig, g_last_error,
                    cur, ret, lastCmd, call, ownText, written, crashed,
                    format_str, info >>

\* The branch on the shape of the input.  fs::is_directory throws when the
\* status of the path cannot be read (statFails); the catch block handles it.
ConvertDispatch(t, statFails) ==
    /\ ~crashed
    /\ pc[t] = "dispatch"
    /\ LET c == cur[t]
           input_path == Deref(params[c].input_path)
           input_ext == Extension(Path(input_path))
       IN  IF statFails
           THEN /\ Fail(t, "convert", GGUF_ERROR_CONVERSION_FAILED,
                        << "Conversion error: ", "filesystem error" >>)
                /\ Emit(t, c, << Log(3, "Conversion error: ", "filesystem error") >>)
                /\ Invoke(t, "llama_backend_free")
                /\ EndConvert(t, c, "failed", FALSE, -1)
                /\ UNCHANGED << progress, current_stage >>
           ELSE IF IsDirectory(Path(input_path))
                   \/ input_ext = ".bin" \/ input_ext = ".safetensors"
           THEN /\ set_progress(c, 20, "Preparing conversion parameters")
                /\ Emit(t, c, << Progress(20, "Preparing conversion parameters") >>)
                /\ pc' = [ pc EXCEPT ![t] = "hf_exec" ]
                /\ UNCHANGED << ret, call, g_last_error, ownText, job, backendLog >>
           ELSE IF input_ext = ".gguf"
           THEN /\ set_progress(c, 20, "Preparing quantization parameters")
                /\ Emit(t, c, << Progress(20, "Preparing quantization parameters") >>)
                /\ pc' = [ pc EXCEPT ![t] = "q_exec" ]
                /\ UNCHANGED << ret, call, g_last_error, ownText, job, backendLog >>
           ELSE /\ Fail(t, "convert", GGUF_ERROR_INVALID_FORMAT,
                        << "Unsupported input format: ", input_ext >>)
                /\ Invoke(t, "llama_backend_free")
                /\ EndConvert(t, c, "failed", FALSE, -1)
                /\ UNCHANGED << progress, current_stage, events >>
    /\ UNCHANGED << caller, alive, params, cancelled, orig, cur, lastCmd,
                    written, crashed, format_str, info >>

\* The external conversion: set_progress(0.3f, ...), then system(cmd)
ConvertExecScript(t) ==
    /\ ~crashed
    /\ pc[t] = "hf_exec"
    /\ LET c == cur[t]
           model_type == Deref(params[c].model_type)
       IN  /\ set_progress(c, 30, "Executing conversion script")
           /\ Emit(t, c, << Progress(30, "Executing conversion script"),
                            Log(1, "Running: ", Deref(params[c].input_path)) >>)
           /\ lastCmd' = [ lastCmd EXCEPT ![t] =
                  [ backend |-> "system",
                    input |-> Deref(params[c].input_path),
                    output |-> Deref(params[c].output_path),
                    outtype |-> Deref(params[c].quantization),
                    vocab_only |-> params[c].vocab_only,
                    model_type |-> IF model_type = NULL THEN "" ELSE model_type,
                    threads |-> IF params[c].num_threads > 0
                                THEN params[c].num_threads ELSE 0 ] ]
    /\ Invoke(t, "system")
    /\ pc' = [ pc EXCEPT ![t] = "hf_wait" ]
    /\ UNCHANGED << caller, alive, params, cancelled, job, orig, g_last_error,
                    cur, ret, call, ownText, written, crashed, format_str, info >>

\* The in-process quantization: set_progress(0.3f, ...), then
\* llama_model_quantize(input, output, &params)
ConvertStartQuantize(t) ==
    /\ ~crashed
    /\ pc[t] = "q_exec"
    /\ LET c == cur[t]
       IN  /\ set_progress(c, 30, "Starting quantization process")
           /\ Emit(t, c, << Progress(30, "Starting quantization process") >>)
           /\ lastCmd' = [ lastCmd EXCEPT ![t] =
                  [ backend |-> "llama_model_quantize",
                    input |-> Deref(params[c].input_path),
                    output |-> Deref(params[c].output_path),
                    outtype |-> target_ftype(Deref(params[c].quantization)),
                    vocab_only |-> 0,
                    model_type |-> "",
                    threads |-> params[c].num_threads ] ]
    /\ Invoke(t, "llama_model_quantize")
    /\ pc' = [ pc EXCEPT ![t] = "q_wait" ]
    /\ UNCHANGED << caller, alive, params, cancelled, job, orig, g_last_error,
                    cur, ret, call, ownText, written, crashed, format_str, info >>

\* The backend returns `result`: a failure is reported, a success ends in
\* set_progress(1.0f, "Complete"); llama_backend_free() on both paths.  A
\* backend that succeeded wrote the output; one that failed may have.
ConvertBackendReturns(t, result, wrote) ==
    /\ ~crashed
    /\ pc[t] \in { "hf_wait", "q_wait" }
    /\ result \in IF pc[t] = "hf_wait" THEN SystemResults ELSE QuantizeResults
    /\ result = 0 => wrote
    /\ LET c == cur[t]
       IN  /\ written' = IF wrote THEN written \cup { lastCmd[t].output } ELSE written
           /\ Invoke(t, "llama_backend_free")
           /\ IF backend_failed(c, result)
              THEN /\ Fail(t, "convert", GGUF_ERROR_CONVERSION_FAILED,
                           << IF pc[t] = "hf_wait"
                              THEN "Python conversion script failed with code: "
                              ELSE "llama.cpp quantization failed with code: ",
                              to_string(result) >>)
                   /\ EndConvert(t, c, "failed", wrote, result)
                   /\ UNCHANGED << progress, current_stage, events >>
              ELSE /\ set_progress(c, 100, "Complete")
                   /\ Emit(t, c, << Progress(100, "Complete"),
                                    Log(1, "Conversion completed successfully", "") >>)
                   /\ Return(t, "convert", GGUF_SUCCESS)
                   /\ EndConvert(t, c, "completed", wrote, result)
    /\ UNCHANGED << caller, alive, params, cancelled, orig, cur, lastCmd,
                    crashed, format_str, info >>

\* ------------------------------------------------------------------------
\* Parameter sets the caller chooses from
\* ------------------------------------------------------------------------
Params(inputs, outputs, types, quants, vtypes) ==
    { [ gguf_default_params EXCEPT
            !.input_path = i, !.output_path = o, !.model_type = m,
            !.quantization = q, !.vocab_type = v ] :
        i \in inputs, o \in outputs, m \in types, q \in quants, v \in vtypes }

\* the lifecycle: every kind of input, a valid, an invalid and no quantization
LifecycleParams ==
    Params({ NULL, "gone", "m.gguf", "hf", "pt", "x.txt" }, { NULL, "out.gguf" },
           { NULL }, { NULL, "f16", "q9_9" }, { NULL })

\* ------------------------------------------------------------------------
\* Specification of the lifecycle
\* ------------------------------------------------------------------------
Init ==
    /\ caller = gguf_default_params
    /\ alive = [ c \in Ctxs |-> FALSE ]
    /\ params = [ c \in Ctxs |-> NoParams ]
    /\ progress = [ c \in Ctxs |-> 0 ]
    /\ cancelled = [ c \in Ctxs |-> FALSE ]
    /\ current_stage = [ c \in Ctxs |-> "" ]
    /\ job = [ c \in Ctxs |-> "none" ]
    /\ orig = [ c \in Ctxs |-> NoOrig ]
    /\ g_last_error = [ t \in Threads |-> NoText ]
    /\ pc = [ t \in Threads |-> "idle" ]
    /\ cur = [ t \in Threads |-> NullHandle ]
    /\ ret = [ t \in Threads |-> NoRet ]
    /\ backendLog = [ t \in Threads |-> << >> ]
    /\ lastCmd = [ t \in Threads |-> NoCmd ]
    /\ call = [ t \in Threads |-> NoCall ]
    /\ ownText = [ t \in Threads |-> NoText ]
    /\ written = { }
    /\ crashed = FALSE
    /\ format_str = [ t \in Threads |-> "" ]
    /\ info = [ t \in Threads |-> NoInfo ]
    /\ events = [ t \in Threads |-> << >> ]

Handles == { NullHandle } \cup Ctxs

\* The steps inside gguf_convert
ConvertStep(t) ==
    \/ ConvertCheck(t)
    \/ ConvertLoad(t)
    \/ \E statFails \in BOOLEAN : ConvertDispatch(t, statFails)
    \/ ConvertExecScript(t)
    \/ ConvertStartQuantize(t)
    \/ \E result \in SystemResults \cup QuantizeResults, wrote \in BOOLEAN :
          ConvertBackendReturns(t, result, wrote)

\* Paths gguf_verify_file is called with
VerifyPaths ==
    { NULL, "gone", "m.gguf", "w.bin", "bad.gguf", "w.pt", "x.txt",
      "locked.gguf", "hf" }

\* The calls a thread makes that can fail or that start and end a job
JobCall(t) ==
    \/ \E hasParams \in BOOLEAN : gguf_create_context(t, hasParams)
    \/ \E h \in Handles : gguf_free_context(t, h)
    \/ \E h \in Handles, hasInfo \in BOOLEAN :
          gguf_validate_input(t, h, hasInfo, FALSE)
    \/ \E h \in Handles : gguf_convert(t, h)
    \/ ConvertStep(t)
    \/ gguf_clear_error(t)

\* The calls that are made while a conversion runs on another thread
ControlCall(t) ==
    \/ \E h \in Handles : gguf_cancel(t, h)
    \/ \E h \in Handles : IsCancelled(t, h)
    \/ \E h \in Handles : GetProgress(t, h)

\* The lifecycle: thread t1 runs the jobs, thread t2 cancels and polls.
Next ==
    \/ \E p \in LifecycleParams : (\A c \in Ctxs : ~alive[c]) /\ CallerPrepare(p)
    \/ JobCall("t1")
    \/ ControlCall("t2")

Spec == Init /\ [][Next]_vars

\* ------------------------------------------------------------------------
\* Specification of the quantization identifiers: every enumerated
\* identifier and identifiers outside the set, on .gguf files, a .gguf
\* directory and a model directory; thread t2 cancels.
\* ------------------------------------------------------------------------
QuantParams ==
    Params({ "m.gguf", "d.gguf", "hf" }, { "out.gguf" }, { NULL },
           { QUANTIZATION_TYPES[i] : i \in 1 .. Len(QUANTIZATION_TYPES) }
               \cup { "q9_9", "", "F16", "q4_k" },
           { NULL })

NextQuant ==
    \/ \E p \in QuantParams : (\A c \in Ctxs : ~alive[c]) /\ CallerPrepare(p)
    \/ gguf_create_context("t1", TRUE)
    \/ \E h \in Ctxs : gguf_free_context("t1", h)
    \/ \E h \in Ctxs : gguf_convert("t1", h)
    \/ ConvertStep("t1")
    \/ \E h \in Ctxs : gguf_cancel("t2", h)

SpecQuant == Init /\ [][NextQuant]_vars

\* ------------------------------------------------------------------------
\* Specification of the ownership of the strings: the caller rewrites and
\* frees its buffers at any time, also while a context lives.  One context
\* lives at a time.
\* ------------------------------------------------------------------------
OwnParams ==
    Params({ "m.gguf", "hf" }, { "out.gguf" }, { NULL, "llama" },
           { "f16", "q9_9" }, { "bpe" })

NextOwn ==
    \/ \E p \in OwnParams : CallerPrepare(p)
    \/ \E f \in StringFields : CallerFree(f)
    \/ (\A c \in Ctxs : ~alive[c]) /\ gguf_create_context("t1", TRUE)
    \/ \E h \in Ctxs : gguf_free_context("t1", h)
    \/ \E h \in Ctxs, hasInfo \in BOOLEAN :
          gguf_validate_input("t1", h, hasInfo, FALSE)
    \/ \E h \in Ctxs : gguf_convert("t1", h)
    \/ ConvertStep("t1")

SpecOwn == Init /\ [][NextOwn]_vars

\* ------------------------------------------------------------------------
\* Specification of the failing calls: both threads make calls that fail,
\* on the null handle, on the same context and on no context.  One context
\* lives at a time, and its quantization identifier is not an enumerated
\* one, so that every gguf_convert call fails before the backend is loaded.
\* ------------------------------------------------------------------------
ErrorParams ==
    Params({ "gone", "x.txt", "pt" }, { "out.gguf" }, { NULL },
           { "q9_9" }, { NULL })

\* Paths on which gguf_verify_file fails, each in its own way
FailingVerifyPaths == { NULL, "gone", "x.txt", "hf" }

FailingCall(t) ==
    \/ \E hasParams \in BOOLEAN :
          (\A c \in Ctxs : ~alive[c]) /\ gguf_create_context(t, hasParams)
    \/ \E h \in Ctxs : gguf_free_context(t, h)
    \/ \E h \in Handles, hasInfo \in BOOLEAN :
          gguf_validate_input(t, h, hasInfo, FALSE)
    \/ \E path \in FailingVerifyPaths : gguf_verify_file(t, path, TRUE)
    \/ \E h \in Handles : gguf_convert(t, h)
    \/ ConvertCheck(t)
    \/ \E h \in Ctxs : gguf_cancel(t, h)
    \/ gguf_clear_error(t)

NextErrors ==
    \/ \E p \in ErrorParams : (\A c \in Ctxs : ~alive[c]) /\ CallerPrepare(p)
    \/ \E t \in Threads : FailingCall(t)

SpecErrors == Init /\ [][NextErrors]_vars

\* ------------------------------------------------------------------------
\* Specification of the inspection calls: one thread creates contexts with
\* and without callbacks, on every kind of input and with an empty output
\* path, validates them, verifies files, and passes the null handle to every
\* operation that takes a handle.  One context lives at a time.
\* ------------------------------------------------------------------------
InspectParams ==
    { [ p EXCEPT !.log_cb = cb, !.progress_cb = cb ] :
        p \in Params({ "m.gguf", "x.txt", "hf", "pt", "st", "lk", "e" },
                     { "out.gguf", "" }, { NULL }, { "f16" }, { NULL }),
        cb \in BOOLEAN }

NextInspect ==
    \/ \E p \in InspectParams : (\A c \in Ctxs : ~alive[c]) /\ CallerPrepare(p)
    \/ (\A c \in Ctxs : ~alive[c]) /\ gguf_create_context("t1", TRUE)
    \/ \E h \in Handles : gguf_free_context("t1", h)
    \/ \E h \in Handles, hasInfo \in BOOLEAN, sizeFails \in BOOLEAN :
          gguf_validate_input("t1", h, hasInfo, sizeFails)
    \/ \E path \in VerifyPaths, hasInfo \in BOOLEAN :
          gguf_verify_file("t1", path, hasInfo)
    \/ \E h \in Handles : gguf_cancel("t1", h)
    \/ \E h \in Handles : IsCancelled("t1", h)
    \/ \E h \in Handles : GetProgress("t1", h)
    \/ gguf_convert("t1", NullHandle)

SpecInspect == Init /\ [][NextInspect]_vars

\* ------------------------------------------------------------------------
\* Specification of format detection: both threads call gguf_detect_format
\* on files and directories of every kind, on paths that do not exist and
\* on the null pointer.
\* ------------------------------------------------------------------------
DetectPaths ==
    { NULL, "gone", "gone.gguf", "m.gguf", "bad.gguf", "d.gguf", "g.gguf",
      "hf", "pt", "st", "sh", "tf", "lk", "e", "w.bin", "w.pt", "x.txt",
      "", "gone.bin", "h5", "fx", "ptf", "tfx", "d.bin", "e.bin",
      "w.pth", "w.safetensors", "w.h5", "w.pb", "w.msgpack" }

NextDetect == \E t \in Threads, path \in DetectPaths : gguf_detect_format(t, path)

SpecDetect == Init /\ [][NextDetect]_vars

\* ------------------------------------------------------------------------
\* Specification of the dispatch: one thread creates a context on an input
\* of every shape (with and without callbacks, with a valid and an invalid
\* quantization identifier), validates it and converts it; the other thread
\* cancels and polls.  One context lives at a time.
\* ------------------------------------------------------------------------
DispatchParams ==
    { [ p EXCEPT !.log_cb = cb, !.progress_cb = cb ] :
        p \in Params({ "m.gguf", "d.gguf", "hf", "tf", "e", "w.bin",
                       "w.safetensors", "w.pt", "x.txt" },
                     { "out.gguf" }, { NULL }, { "f16", "q9_9" }, { NULL }),
        cb \in BOOLEAN }

NextDispatch ==
    \/ \E p \in DispatchParams : (\A c \in Ctxs : ~alive[c]) /\ CallerPrepare(p)
    \/ (\A c \in Ctxs : ~alive[c]) /\ gguf_create_context("t1", TRUE)
    \/ \E h \in Ctxs : gguf_free_context("t1", h)
    \/ \E h \in Ctxs : gguf_validate_input("t1", h, FALSE, FALSE)
    \/ \E h \in Ctxs : gguf_convert("t1", h)
    \/ ConvertStep("t1")
    \/ \E h \in Ctxs : gguf_cancel("t2", h)
    \/ \E h \in Ctxs : IsCancelled("t2", h)
    \/ \E h \in Ctxs : GetProgress("t2", h)

SpecDispatch == Init /\ [][NextDispatch]_vars

\* ------------------------------------------------------------------------
\* Specification of the faults inside gguf_convert: as the dispatch, and an
\* exception can be raised in the try block before the backend is
\* initialised (an allocation fails) and at the branch on the input.
\* ------------------------------------------------------------------------
FaultParams ==
    { [ p EXCEPT !.log_cb = cb, !.progress_cb = cb ] :
        p \in Params({ "m.gguf", "hf", "x.txt" }, { "out.gguf" }, { NULL },
                     { "f16", "q9_9" }, { NULL }),
        cb \in BOOLEAN }

NextFaults ==
    \/ \E p \in FaultParams : (\A c \in Ctxs : ~alive[c]) /\ CallerPrepare(p)
    \/ (\A c \in Ctxs : ~alive[c]) /\ gguf_create_context("t1", TRUE)
    \/ \E h \in Ctxs : gguf_free_context("t1", h)
    \/ \E h \in Ctxs : gguf_convert("t1", h)
    \/ \E h \in Ctxs, reported \in BOOLEAN : gguf_convert_throws("t1", h, reported)
    \/ ConvertStep("t1")
    \/ \E h \in Ctxs : gguf_cancel("t2", h)

SpecFaults == Init /\ [][NextFaults]_vars

\* ------------------------------------------------------------------------
\* Specification of validation followed by conversion: a thread creates a
\* context on an input of every format, validates it, and calls
\* gguf_convert only when gguf_validate_input on that context has just
\* returned GGUF_SUCCESS.  Nothing is cancelled.
\* ------------------------------------------------------------------------
ValidatedParams ==
    Params({ "m.gguf", "d.gguf", "g.gguf", "hf", "pt", "tf", "fx", "e",
             "w.bin", "w.safetensors", "w.pt", "w.pth", "w.h5", "w.pb",
             "w.msgpack",
             "x.txt" },
           { "out.gguf" }, { NULL }, { "f16", "q4_k_m" }, { NULL })

NextValidated ==
    \/ \E p \in ValidatedParams : (\A c \in Ctxs : ~alive[c]) /\ CallerPrepare(p)
    \/ (\A c \in Ctxs : ~alive[c]) /\ gguf_create_context("t1", TRUE)
    \/ \E h \in Ctxs : gguf_free_context("t1", h)
    \/ \E h \in Ctxs : gguf_validate_input("t1", h, FALSE, FALSE)
    \/ \E h \in Ctxs :
          /\ ret["t1"] = Returned("validate", GGUF_SUCCESS)
          /\ cur["t1"] = h
          /\ gguf_convert("t1", h)
    \/ ConvertStep("t1")

SpecValidated == Init /\ [][NextValidated]_vars

\* ------------------------------------------------------------------------
\* Specification of polling: one thread creates a context and calls
\* gguf_convert on it once; the other thread polls gguf_get_progress and
\* cancels at any moment of the conversion.
\* ------------------------------------------------------------------------
PollParams ==
    { [ p EXCEPT !.log_cb = cb, !.progress_cb = cb ] :
        p \in Params({ "m.gguf", "hf", "x.txt" }, { "out.gguf" }, { NULL },
                     { "f16", "q9_9" }, { NULL }),
        cb \in BOOLEAN }

NextPoll ==
    \/ \E p \in PollParams : (\A c \in Ctxs : ~alive[c]) /\ CallerPrepare(p)
    \/ (\A c \in Ctxs : ~alive[c]) /\ gguf_create_context("t1", TRUE)
    \/ \E h \in Ctxs : gguf_free_context("t1", h)
    \/ \E h \in Ctxs : job[h] = "created" /\ gguf_convert("t1", h)
    \/ ConvertStep("t1")
    \/ \E h \in Ctxs : GetProgress("t2", h)
    \/ \E h \in Ctxs : gguf_cancel("t2", h)

SpecPoll == Init /\ [][NextPoll]_vars

\* ------------------------------------------------------------------------
\* Specification of the callbacks: a user callback takes time.  One thread
\* converts a context, the other cancels it; each can be inside the log
\* callback of the context while the other thread runs.
\* ------------------------------------------------------------------------
CallbackParams ==
    { [ p EXCEPT !.log_cb = cb, !.progress_cb = cb ] :
        p \in Params({ "m.gguf", "hf", "x.txt" }, { "out.gguf" }, { NULL },
                     { "f16" }, { NULL }),
        cb \in BOOLEAN }

NextCallbacks ==
    \/ \E p \in CallbackParams : (\A c \in Ctxs : ~alive[c]) /\ CallerPrepare(p)
    \/ (\A c \in Ctxs : ~alive[c]) /\ gguf_create_context("t1", TRUE)
    \/ \E h \in Ctxs : gguf_free_context("t1", h)
    \/ \E h \in Ctxs : gguf_convert("t1", h)
    \/ \E h \in Ctxs : gguf_convert_in_log("t1", h)
    \/ ConvertLogReturns("t1")
    \/ ConvertStep("t1")
    \/ \E h \in Ctxs : gguf_cancel("t2", h)
    \/ \E h \in Ctxs : gguf_cancel_in_log("t2", h)
    \/ CancelLogReturns("t2")

SpecCallbacks == Init /\ [][NextCallbacks]_vars

\* ------------------------------------------------------------------------
\* Properties of the lifecycle
\* ------------------------------------------------------------------------
\* C1: a gguf_convert call that begins on a context on which gguf_cancel
\* has already returned invokes no backend (llama_backend_init, system and
\* llama_model_quantize are never called, nothing is written) and, when it
\* returns, returns GGUF_ERROR_CANCELLED.
C1_CancelledBeforeConvert ==
    \A t \in Threads :
        (ret[t].op = "convert" /\ call[t].cancelled) =>
            /\ backendLog[t] = << >>
            /\ lastCmd[t] = NoCmd
            /\ ~call[t].wrote
            /\ ret[t].how \in { "running", "returned" }
            /\ ret[t].how = "returned" => ret[t].code = GGUF_ERROR_CANCELLED

C1_Witness ==
    \E t \in Threads :
        /\ ret[t] = Returned("convert", GGUF_ERROR_CANCELLED)
        /\ call[t].cancelled
        /\ call[t].quant = "f16"

\* C2: cancellation is monotonic: while a context lives, once its flag is
\* set or gguf_cancel is called on it, gguf_is_cancelled returns true after
\* every further step of any operation.
C2_CancelMonotonic ==
    [][ \A c \in Ctxs :
           ( /\ alive[c] /\ alive'[c]
             /\ (gguf_is_cancelled(c) = 1 \/ \E t \in Threads : gguf_cancel(t, c)) )
           => gguf_is_cancelled(c)' = 1 ]_vars

C2_Witness ==
    \E c \in Ctxs : \E t \in Threads :
        /\ alive[c] /\ gguf_is_cancelled(c) = 1
        /\ job[c] = "completed"
        /\ ret[t].op = "validate"

\* C5: gguf_get_progress returns 0.0 on a context on which gguf_convert was
\* never called, and 1.0 once a gguf_convert call on it returned
\* GGUF_SUCCESS (until another gguf_convert call begins).
C5_ProgressEnds ==
    \A c \in Ctxs :
        /\ (alive[c] /\ job[c] = "created") => gguf_get_progress(c) = 0
        /\ (alive[c] /\ job[c] = "completed") => gguf_get_progress(c) = 100
        /\ \A t \in Threads :
              (ret[t] = Returned("convert", GGUF_SUCCESS) /\ cur[t] = c) =>
                  (alive[c] /\ gguf_get_progress(c) = 100)

C5_Witness ==
    \E c \in Ctxs : \E t \in Threads :
        /\ job[c] = "completed"
        /\ ret[t] = Returned("get_progress", 100)

\* C6: gguf_create_context returns no handle, allocates no context and sets
\* the last-error text to the invalid-parameters message when the params,
\* the input path or the output path is absent, and to the not-found
\* message when the input path does not exist; otherwise it returns the
\* handle of a context it allocated.
C6_CreateContract ==
    [][ \A t \in Threads, hasParams \in BOOLEAN :
           gguf_create_context(t, hasParams) =>
              LET absent == \/ ~hasParams
                            \/ caller.input_path = NULL
                            \/ caller.output_path = NULL
                  missing == ~absent /\ ~Exists(Path(caller.input_path))
              IN  /\ absent =>
                        /\ ret'[t] = Returned("create", NullHandle)
                        /\ alive' = alive
                        /\ gguf_get_last_error(t)' =
                             << "Invalid parameters: input_path and output_path are required", "" >>
                  /\ missing =>
                        /\ ret'[t] = Returned("create", NullHandle)
                        /\ alive' = alive
                        /\ gguf_get_last_error(t)' =
                             << "Input path not found: ", caller.input_path >>
                  /\ (~absent /\ ~missing) =>
                        /\ ret'[t].how = "returned"
                        /\ ret'[t].code \in Ctxs
                        /\ ~alive[ret'[t].code] /\ alive'[ret'[t].code]
                        /\ gguf_get_last_error(t)' = gguf_get_last_error(t) ]_vars

C6_Witness ==
    \E t \in Threads :
        /\ ret[t] = Returned("create", NullHandle)
        /\ gguf_get_last_error(t) = << "Input path not found: ", "gone" >>
        /\ \A c \in Ctxs : ~alive[c]

\* C8: no fault leaves gguf_validate_input or gguf_convert as an exception:
\* every call of the two returns a result code.
C8_NoFaultEscapes ==
    \A t \in Threads :
        ret[t].op \in { "validate", "convert" } => ret[t].how # "threw"

\* ------------------------------------------------------------------------
\* Properties of the quantization identifiers
\* ------------------------------------------------------------------------
\* The enumerated quantization identifiers of the interface
EnumeratedQuantizations ==
    { "f32", "f16", "q4_0", "q4_1", "q5_0", "q5_1", "q8_0", "q8_1", "q2_k",
      "q3_k_s", "q3_k_m", "q3_k_l", "q4_k_s", "q4_k_m", "q5_k_s", "q5_k_m",
      "q6_k" }

\* Thread t's current or last call is a gguf_convert on a context.
InConvert(t) == ret[t].op = "convert" /\ cur[t] # NullHandle

\* C3: a gguf_convert call on a context whose quantization identifier is a
\* string outside the enumerated set invokes no backend and writes nothing;
\* it returns GGUF_ERROR_INVALID_QUANTIZATION when the context is not
\* cancelled as the call returns (and GGUF_ERROR_CANCELLED otherwise).
C3_InvalidQuantization ==
    \A t \in Threads :
        ( /\ InConvert(t)
          /\ call[t].quant # NULL
          /\ call[t].quant \notin EnumeratedQuantizations ) =>
            /\ backendLog[t] = << >>
            /\ lastCmd[t] = NoCmd
            /\ ~call[t].wrote
            /\ ret[t].how \in { "running", "returned" }
            /\ ret[t].how = "returned" =>
                  ret[t].code = IF call[t].exit_cancelled
                                THEN GGUF_ERROR_CANCELLED
                                ELSE GGUF_ERROR_INVALID_QUANTIZATION

C3_Witness ==
    \E t \in Threads :
        /\ ret[t] = Returned("convert", GGUF_ERROR_INVALID_QUANTIZATION)
        /\ call[t].quant = "q4_k"
        /\ call[t].input = "m.gguf"
        /\ written = { }

\* C4: a gguf_convert call on a context whose input has the .gguf extension
\* and whose quantization identifier is one of the 17 enumerated ones never
\* returns GGUF_ERROR_INVALID_QUANTIZATION, whatever the backend returns.
C4_EnumeratedAccepted ==
    \A t \in Threads :
        ( /\ InConvert(t)
          /\ call[t].quant \in EnumeratedQuantizations
          /\ Extension(Path(call[t].input)) = ".gguf" ) =>
            /\ ret[t] # Returned("convert", GGUF_ERROR_INVALID_QUANTIZATION)
            /\ ret[t].how \in { "running", "returned" }
            /\ (ret[t].how = "returned" /\ ~call[t].exit_cancelled) =>
                  backendLog[t] # << >>

C4_Witness ==
    \E t \in Threads :
        /\ ret[t] = Returned("convert", GGUF_ERROR_CONVERSION_FAILED)
        /\ call[t].quant = "q6_k"
        /\ call[t].input = "m.gguf"
        /\ lastCmd[t].backend = "llama_model_quantize"

\* ------------------------------------------------------------------------
\* Properties of the ownership of the strings
\* ------------------------------------------------------------------------
\* C7: whatever the caller does to its buffers after gguf_create_context
\* succeeded, the strings the context reads are the strings it was created
\* with, and so are the arguments of the backends and the results of
\* gguf_validate_input and gguf_convert.
C7_SnapshotIndependent ==
    /\ \A c \in Ctxs : alive[c] =>
          \A f \in StringFields : Deref(params[c][f]) = orig[c][f]
    /\ \A t \in Threads :
          (cur[t] # NullHandle /\ alive[cur[t]]) =>
             LET o == orig[cur[t]]
             IN  /\ lastCmd[t].backend # "none" =>
                       /\ lastCmd[t].input = o.input_path
                       /\ lastCmd[t].output = o.output_path
                       /\ lastCmd[t].outtype =
                            IF lastCmd[t].backend = "system" THEN o.quantization
                            ELSE target_ftype(o.quantization)
                       /\ lastCmd[t].backend = "system" =>
                            lastCmd[t].model_type =
                               IF o.model_type = NULL THEN "" ELSE o.model_type
                 /\ (ret[t].op = "convert" /\ ret[t].how = "returned") =>
                       ( ret[t].code = GGUF_ERROR_INVALID_QUANTIZATION
                           <=> ( ~call[t].exit_cancelled
                                 /\ o.quantization \notin EnumeratedQuantizations ) )
                 /\ (ret[t].op = "validate" /\ ret[t].how = "returned") =>
                       ( ret[t].code = GGUF_SUCCESS
                           <=> detect_format_impl(Path(o.input_path)) # "" )

C7_Witness ==
    \E t \in Threads :
        /\ ret[t] = Returned("convert", GGUF_SUCCESS)
        /\ lastCmd[t].backend = "system"
        /\ lastCmd[t].model_type = "llama"
        /\ caller.input_path = FREED
        /\ caller.model_type = FREED
        /\ caller.quantization = "q9_9"

\* ------------------------------------------------------------------------
\* Properties of the last-error text
\* ------------------------------------------------------------------------
\* C9: every failing call of gguf_validate_input, gguf_convert and
\* gguf_verify_file returns a negative result code, with the last-error
\* text of the calling thread set by that call.
C9_FailuresReturnCodeAndText ==
    \A t \in Threads :
        ( /\ ret[t].op \in { "validate", "convert", "verify_file" }
          /\ ret[t].how # "running"
          /\ ret[t] # Returned(ret[t].op, GGUF_SUCCESS) ) =>
            /\ ret[t].how = "returned"
            /\ ret[t].code < 0
            /\ gguf_get_last_error(t) # NoText
            /\ gguf_get_last_error(t) = ownText[t]

\* C10: the text gguf_get_last_error returns on a thread is the text of the
\* most recent failing call made on that thread (empty after
\* gguf_clear_error), whatever the other thread does.
C10_ErrorTextPerThread ==
    \A t \in Threads : gguf_get_last_error(t) = ownText[t]

C10_Witness ==
    /\ gguf_get_last_error("t1") = << "Could not detect model format from: ", "x.txt" >>
    /\ gguf_get_last_error("t2") = << "Conversion cancelled", "" >>
    /\ ret["t1"].op = "cancel"

\* ------------------------------------------------------------------------
\* Properties of cancellation during a conversion and of a second conversion
\* ------------------------------------------------------------------------
\* C11: a gguf_cancel that takes effect after gguf_convert has passed its
\* cancellation check does not abort the call: once a backend has been
\* invoked the call waits for it and returns what the backend's result
\* alone determines (GGUF_SUCCESS for 0, GGUF_ERROR_CONVERSION_FAILED
\* otherwise), also on a cancelled context; GGUF_ERROR_CANCELLED is only
\* returned before any backend call.
C11_CancelDoesNotAbort ==
    \A t \in Threads :
        ret[t].op = "convert" =>
            /\ ret[t] = Returned("convert", GGUF_ERROR_CANCELLED) =>
                   backendLog[t] = << >>
            /\ lastCmd[t].backend # "none" =>
                   \/ /\ ret[t].how = "running"
                      /\ pc[t] \in { "hf_wait", "q_wait" }
                   \/ /\ ret[t].how = "returned"
                      /\ pc[t] = "idle"
                      /\ call[t].result \in SystemResults \cup QuantizeResults
                      /\ ret[t].code = IF call[t].result = 0 THEN GGUF_SUCCESS
                                       ELSE GGUF_ERROR_CONVERSION_FAILED

C11_Witness ==
    \E t \in Threads :
        /\ ret[t] = Returned("convert", GGUF_SUCCESS)
        /\ ~call[t].cancelled
        /\ call[t].exit_cancelled
        /\ cur[t] # NullHandle
        /\ alive[cur[t]]
        /\ gguf_is_cancelled(cur[t]) = 1

\* The job of context c has ended (section 4.3: Completed, Failed, Cancelled).
Ended(c) == job[c] \in { "completed", "failed", "cancelled" }

\* C12: a context is single-job: once a gguf_convert call on it has ended in
\* Completed, Failed or Cancelled, no later step brings the context back to
\* Converting or moves its progress.
C12_SingleJob ==
    [][ \A c \in Ctxs :
          Ended(c) =>
             /\ job'[c] # "converting"
             /\ alive'[c] => progress'[c] = progress[c] ]_vars

\* ------------------------------------------------------------------------
\* Properties of format detection
\* ------------------------------------------------------------------------
\* Thread t's last call is gguf_detect_format on a path that is not null.
Detected(t) == ret[t].op = "detect_format" /\ call[t].input # NULL

\* C13: format detection of an existing path whose extension is .gguf
\* yields the tag gguf, for a file and for a directory, whatever the
\* directory holds.
C13_GgufExtension ==
    \A t \in Threads :
        ( /\ Detected(t)
          /\ Exists(Path(call[t].input))
          /\ Extension(Path(call[t].input)) = ".gguf" ) =>
            /\ format_str[t] = "gguf"
            /\ ret[t] = Returned("detect_format", 1)

C13_Witness ==
    \E t \in Threads :
        /\ Detected(t)
        /\ call[t].input = "g.gguf"
        /\ IsDirectory(<< "g.gguf" >>)
        /\ << "g.gguf", "model.safetensors" >> \in FsFiles
        /\ format_str[t] = "gguf"

\* C14: for a directory whose name has no .gguf extension, detection yields
\* safetensors when the directory holds model.safetensors (also next to
\* pytorch_model.bin), and pytorch when it holds pytorch_model.bin and no
\* model.safetensors.
C14_DirectoryFormats ==
    \A t \in Threads :
        ( /\ Detected(t)
          /\ Path(call[t].input) \in FsDirs
          /\ Extension(Path(call[t].input)) # ".gguf" ) =>
            LET dir == Path(call[t].input)
                st == Append(dir, "model.safetensors") \in FsFiles
                pt == Append(dir, "pytorch_model.bin") \in FsFiles
            IN  /\ st => format_str[t] = "safetensors"
                /\ (pt /\ ~st) => format_str[t] = "pytorch"

C14_Witness ==
    \E t \in Threads :
        /\ Detected(t)
        /\ call[t].input = "hf"
        /\ << "hf", "model.safetensors" >> \in FsFiles
        /\ << "hf", "pytorch_model.bin" >> \in FsFiles
        /\ format_str[t] = "safetensors"

\* ------------------------------------------------------------------------
\* Properties of gguf_verify_file
\* ------------------------------------------------------------------------
\* C15: gguf_verify_file on an existing, readable file returns GGUF_SUCCESS
\* when the first four bytes of the file are G, G, U, F and
\* GGUF_ERROR_INVALID_FORMAT for every other four bytes; it stores through
\* info only when it succeeds (the size and the model type gguf).
C15_VerifyMagic ==
    \A t \in Threads :
        ( /\ ret[t].op = "verify_file"
          /\ Path(call[t].input) \in FsFiles \ FsUnreadable ) =>
            LET file == Path(call[t].input)
            IN  /\ ret[t] = Returned("verify_file",
                                     IF Magic(file) = << "G", "G", "U", "F" >>
                                     THEN GGUF_SUCCESS
                                     ELSE GGUF_ERROR_INVALID_FORMAT)
                /\ ret[t].code # GGUF_SUCCESS => info[t] = NoInfo
                /\ info[t] \in { NoInfo,
                                 [ written |-> TRUE, from_config |-> FALSE,
                                   has_size |-> TRUE, model_type |-> "gguf" ] }

C15_Witness ==
    \E t \in Threads :
        /\ ret[t] = Returned("verify_file", GGUF_SUCCESS)
        /\ call[t].input = "w.bin"
        /\ info[t].written
        /\ info[t].model_type = "gguf"

\* ------------------------------------------------------------------------
\* Properties of the null handle
\* ------------------------------------------------------------------------
\* What a call of thread t on the null handle leaves alone: every context,
\* the caller's struct, the files, the other outputs; no callback runs and
\* no backend is called.
NullFrame(t) ==
    /\ UNCHANGED << ctxVars, caller, written, crashed, format_str, pc >>
    /\ events'[t] = << >>
    /\ info'[t] = NoInfo
    /\ backendLog'[t] = << >>
    /\ lastCmd'[t] = NoCmd

\* C16: every operation that takes a handle is safe on the null handle and
\* changes no context: gguf_free_context and gguf_cancel do nothing,
\* gguf_get_progress returns -1.0, gguf_is_cancelled returns 0, and
\* gguf_validate_input and gguf_convert return GGUF_ERROR_INVALID_ARGS (with
\* the text "Invalid context") without a callback or a backend call.
C16_NullHandle ==
    [][ \A t \in Threads :
          /\ gguf_free_context(t, NullHandle) =>
                /\ NullFrame(t)
                /\ UNCHANGED g_last_error
                /\ ret'[t] = Returned("free", 0)
          /\ gguf_cancel(t, NullHandle) =>
                /\ NullFrame(t)
                /\ UNCHANGED g_last_error
                /\ ret'[t] = Returned("cancel", 0)
          /\ GetProgress(t, NullHandle) =>
                /\ NullFrame(t)
                /\ UNCHANGED g_last_error
                /\ ret'[t] = Returned("get_progress", -100)
          /\ IsCancelled(t, NullHandle) =>
                /\ NullFrame(t)
                /\ UNCHANGED g_last_error
                /\ ret'[t] = Returned("is_cancelled", 0)
          /\ (\E hasInfo \in BOOLEAN :
                 gguf_validate_input(t, NullHandle, hasInfo, FALSE)) =>
                /\ NullFrame(t)
                /\ ret'[t] = Returned("validate", GGUF_ERROR_INVALID_ARGS)
                /\ gguf_get_last_error(t)' = << "Invalid context", "" >>
          /\ gguf_convert(t, NullHandle) =>
                /\ NullFrame(t)
                /\ ret'[t] = Returned("convert", GGUF_ERROR_INVALID_ARGS)
                /\ gguf_get_last_error(t)' = << "Invalid context", "" >>
      ]_vars

C16_Witness ==
    \E t \in Threads, c \in Ctxs :
        /\ ret[t] = Returned("get_progress", -100)
        /\ alive[c]
        /\ params[c].log_cb
        /\ params[c].progress_cb
        /\ cancelled[c]

\* ------------------------------------------------------------------------
\* Properties of the parameters gguf_create_context accepts
\* ------------------------------------------------------------------------
\* C17: gguf_convert on a context created with no quantization identifier
\* (a null pointer) behaves as with f16: it does not fault, it returns a
\* result code that is not GGUF_ERROR_INVALID_QUANTIZATION, and the type it
\* hands to a backend is f16.
C17_DefaultQuantization ==
    \A t \in Threads :
        ( InConvert(t) /\ call[t].quant = NULL ) =>
            /\ ret[t].how \in { "running", "returned" }
            /\ ret[t] # Returned("convert", GGUF_ERROR_INVALID_QUANTIZATION)
            /\ lastCmd[t].backend # "none" =>
                  lastCmd[t].outtype \in { "f16", "LLAMA_FTYPE_MOSTLY_F16" }

\* C18: gguf_create_context refuses an empty path: no context is ever
\* created from parameters whose input path or output path is the empty
\* string.
C18_NonEmptyPaths ==
    \A c \in Ctxs :
        alive[c] => ( orig[c].input_path # "" /\ orig[c].output_path # "" )

\* ------------------------------------------------------------------------
\* Properties of gguf_validate_input
\* ------------------------------------------------------------------------
\* Thread t's last call is gguf_validate_input on a context that still lives.
Validated(t) ==
    ret[t].op = "validate" /\ cur[t] # NullHandle /\ alive[cur[t]]

\* The log callback of t's last call was invoked with this event.
Logged(t, event) == \E i \in 1 .. Len(events[t]) : events[t][i] = event

\* C19: gguf_validate_input on a context returns GGUF_ERROR_INVALID_FORMAT
\* when detection of the input path yields no tag and GGUF_SUCCESS
\* otherwise; every call logs the detected format (to a context that has a
\* log callback); a failing call stores nothing through info.
C19_ValidateResult ==
    \A t \in Threads :
        Validated(t) =>
            LET c == cur[t]
                format == detect_format_impl(Path(orig[c].input_path))
            IN  /\ ret[t] = Returned("validate",
                                     IF format = "" THEN GGUF_ERROR_INVALID_FORMAT
                                     ELSE GGUF_SUCCESS)
                /\ params[c].log_cb => Logged(t, Log(1, "Detected format: ", format))
                /\ ret[t].code # GGUF_SUCCESS => info[t] = NoInfo

\* C20: metadata extraction and the size of the input are best-effort in
\* gguf_validate_input: when info is requested and config.json is missing or
\* cannot be opened, or the size of the input cannot be read, the call still
\* returns GGUF_SUCCESS, leaves the fields it could not fill at zero, and
\* logs a warning (level 2) for each.
C20_BestEffort ==
    \A t \in Threads :
        ( Validated(t) /\ info[t].written ) =>
            LET c == cur[t]
                config == ConfigPath(Path(orig[c].input_path))
                no_config == config \notin FsFiles \/ config \in FsUnreadable
                no_size == call[t].size_fails /\ config \notin FsBadConfigs
            IN  /\ (no_config \/ no_size) =>
                      ret[t] = Returned("validate", GGUF_SUCCESS)
                /\ no_config =>
                      /\ ~info[t].from_config
                      /\ info[t].model_type = ""
                      /\ params[c].log_cb =>
                            Logged(t, Log(2, "Warning: Could not extract full model info from config", ""))
                /\ no_size =>
                      /\ ~info[t].has_size
                      /\ params[c].log_cb =>
                            Logged(t, Log(2, "Warning: Could not determine file size: ",
                                          "filesystem error"))
                /\ (~no_config /\ ret[t].how = "returned") => info[t].from_config
                /\ (~no_size /\ ret[t].how = "returned") => info[t].has_size

C20_Witness ==
    \E t \in Threads :
        /\ Validated(t)
        /\ orig[cur[t]].input_path = "lk"
        /\ << "lk", "config.json" >> \in FsUnreadable
        /\ call[t].size_fails
        /\ ret[t] = Returned("validate", GGUF_SUCCESS)
        /\ info[t] = ZeroInfo
        /\ Logged(t, Log(1, "Detected format: ", "pytorch"))
        /\ Logged(t, Log(2, "Warning: Could not extract full model info from config", ""))
        /\ Logged(t, Log(2, "Warning: Could not determine file size: ",
                      "filesystem error"))

\* ------------------------------------------------------------------------
\* Properties of the dispatch inside gguf_convert
\* ------------------------------------------------------------------------
\* The backend call `name` was made by t's current or last gguf_convert.
Invoked(t, name) ==
    \E i \in 1 .. Len(backendLog[t]) : backendLog[t][i] = name

\* How many times t's current or last gguf_convert ran a conversion backend
BackendRuns(t) ==
    Cardinality({ i \in 1 .. Len(backendLog[t]) :
                     backendLog[t][i] \in { "system", "llama_model_quantize" } })

\* t's last gguf_convert returned from its catch block.
Caught(t) ==
    /\ ret[t] = Returned("convert", GGUF_ERROR_CONVERSION_FAILED)
    /\ ownText[t][1] = "Conversion error: "

\* C21: a gguf_convert call that passed the cancellation check and the
\* validation of the quantization identifier (and met no exception) ran the
\* in-process quantization and not the external process when the input
\* path has the .gguf extension, the external process when the input is a
\* directory or has the extension .bin or .safetensors, and failed with
\* GGUF_ERROR_INVALID_FORMAT without a backend on every other input; no
\* call runs more than one backend.
C21_BackendSelection ==
    \A t \in Threads :
        InConvert(t) =>
            /\ BackendRuns(t) <= 1
            /\ ( /\ ret[t].how = "returned"
                 /\ ret[t].code # GGUF_ERROR_CANCELLED
                 /\ call[t].quant \in EnumeratedQuantizations
                 /\ ~Caught(t) ) =>
                  LET input == Path(call[t].input)
                      gguf == Extension(input) = ".gguf"
                      weights == \/ IsDirectory(input)
                                 \/ Extension(input) \in { ".bin", ".safetensors" }
                  IN  /\ gguf =>
                            /\ Invoked(t, "llama_model_quantize")
                            /\ ~Invoked(t, "system")
                      /\ (~gguf /\ weights) =>
                            /\ Invoked(t, "system")
                            /\ ~Invoked(t, "llama_model_quantize")
                      /\ (~gguf /\ ~weights) =>
                            /\ ret[t].code = GGUF_ERROR_INVALID_FORMAT
                            /\ BackendRuns(t) = 0

\* C22: once gguf_convert has run a backend, the status the backend returns
\* decides the result: a status that is not zero (of the external process
\* or of llama_model_quantize) gives GGUF_ERROR_CONVERSION_FAILED with the
\* status written in decimal at the end of the last-error text, zero gives
\* GGUF_SUCCESS; and gguf_convert returns GGUF_SUCCESS only after a backend
\* ran and returned zero.
C22_BackendStatus ==
    \A t \in Threads :
        ( InConvert(t) /\ ret[t].how = "returned" ) =>
            /\ BackendRuns(t) = 1 =>
                  /\ call[t].result \in SystemResults \cup QuantizeResults
                  /\ call[t].result = 0 => ret[t].code = GGUF_SUCCESS
                  /\ call[t].result # 0 =>
                        /\ ret[t].code = GGUF_ERROR_CONVERSION_FAILED
                        /\ gguf_get_last_error(t)[1] =
                              IF Invoked(t, "system")
                              THEN "Python conversion script failed with code: "
                              ELSE "llama.cpp quantization failed with code: "
                        /\ call[t].result = 1 => gguf_get_last_error(t)[2] = "1"
                        /\ call[t].result = 256 => gguf_get_last_error(t)[2] = "256"
            /\ ret[t].code = GGUF_SUCCESS =>
                  ( BackendRuns(t) = 1 /\ call[t].result = 0 )

C22_Witness ==
    \E t \in Threads :
        /\ ret[t] = Returned("convert", GGUF_ERROR_CONVERSION_FAILED)
        /\ Invoked(t, "system")
        /\ call[t].result = 256
        /\ gguf_get_last_error(t) =
              << "Python conversion script failed with code: ", "256" >>

\* ------------------------------------------------------------------------
\* Properties of the backend runtime
\* ------------------------------------------------------------------------
\* How many times t's current or last gguf_convert made the call `name`
Calls(t, name) ==
    Cardinality({ i \in 1 .. Len(backendLog[t]) : backendLog[t][i] = name })

\* C23: in every gguf_convert call the backend runtime is initialised at
\* most once, it is never released more often than it was initialised (in
\* particular never without having been initialised: a call that returns
\* GGUF_ERROR_CANCELLED or GGUF_ERROR_INVALID_QUANTIZATION, or that meets an
\* exception before the initialisation, releases nothing), and when the
\* call returns it has been released exactly as often as initialised.
C23_RuntimeBalanced ==
    \A t \in Threads :
        InConvert(t) =>
            /\ Calls(t, "llama_backend_init") <= 1
            /\ Calls(t, "llama_backend_free") <= Calls(t, "llama_backend_init")
            /\ ret[t].how = "returned" =>
                  Calls(t, "llama_backend_free") = Calls(t, "llama_backend_init")

\* ------------------------------------------------------------------------
\* Properties of the progress reports
\* ------------------------------------------------------------------------
\* The invocations of the progress callback by t's current or last call
ProgressEvents(t) == SelectSeq(events[t], LAMBDA e : e.cb = "progress")

\* The values set_progress is called with in gguf_convert, in the order of
\* the code, and the stage labels that go with each
Checkpoints == << 0, 10, 20, 30, 100 >>

StageLabels(p) ==
    CASE p = 0 -> { "Initializing conversion" }
      [] p = 10 -> { "Loading model" }
      [] p = 20 -> { "Preparing conversion parameters",
                     "Preparing quantization parameters" }
      [] p = 30 -> { "Executing conversion script",
                     "Starting quantization process" }
      [] OTHER -> { "Complete" }

\* C24: in one gguf_convert call on a context that has a progress callback,
\* the values the callback receives are a prefix, not empty, of 0.0, 0.1,
\* 0.2, 0.3, 1.0, each with a stage label of its checkpoint: 0.0 is
\* reported by every call (also one that returns GGUF_ERROR_CANCELLED), 0.1
\* only when the quantization identifier is an enumerated one, and 1.0
\* exactly when the call returns GGUF_SUCCESS.
C24_ProgressOrder ==
    \A t \in Threads :
        ( InConvert(t) /\ alive[cur[t]] /\ params[cur[t]].progress_cb ) =>
            LET ps == ProgressEvents(t)
            IN  /\ Len(ps) >= 1
                /\ Len(ps) <= Len(Checkpoints)
                /\ \A i \in 1 .. Len(ps) :
                      /\ ps[i].num = Checkpoints[i]
                      /\ ps[i].text[1] \in StageLabels(Checkpoints[i])
                /\ Len(ps) >= 2 =>
                      ( call[t].quant \in EnumeratedQuantizations
                        /\ ~call[t].cancelled )
                /\ Len(ps) = Len(Checkpoints)
                      <=> ret[t] = Returned("convert", GGUF_SUCCESS)

C24_Witness ==
    \E t \in Threads :
        /\ ret[t] = Returned("convert", GGUF_SUCCESS)
        /\ alive[cur[t]]
        /\ params[cur[t]].progress_cb
        /\ ProgressEvents(t) =
              << Progress(0, "Initializing conversion"),
                 Progress(10, "Loading model"),
                 Progress(20, "Preparing quantization parameters"),
                 Progress(30, "Starting quantization process"),
                 Progress(100, "Complete") >>

\* ------------------------------------------------------------------------
\* Properties of the mapping of the quantization identifier
\* ------------------------------------------------------------------------
\* C25: the format type llama_model_quantize is called with is the 16-bit
\* float default only when the identifier is f16: every other enumerated
\* identifier, having passed the validation, is mapped by an entry of the
\* table to a type of its own.
C25_TableExhaustive ==
    \A t \in Threads :
        ( /\ InConvert(t)
          /\ Invoked(t, "llama_model_quantize")
          /\ call[t].quant \in EnumeratedQuantizations ) =>
            ( lastCmd[t].outtype = "LLAMA_FTYPE_MOSTLY_F16" =>
                  call[t].quant = "f16" )

\* ------------------------------------------------------------------------
\* Properties of who sets the progress
\* ------------------------------------------------------------------------
\* C26: gguf_validate_input, gguf_cancel, gguf_is_cancelled and
\* gguf_get_progress leave the progress value and the stage label of every
\* context unchanged and invoke no progress callback; gguf_create_context
\* does the same but for the progress 0.0 of the context it allocates; and
\* every step that changes the progress or the stage of a living context
\* is a step of a gguf_convert call on that context.
C26_OnlyConvertSetsProgress ==
    [][ /\ \A t \in Threads, h \in Ctxs :
              ( \/ \E hasInfo \in BOOLEAN, sizeFails \in BOOLEAN :
                      gguf_validate_input(t, h, hasInfo, sizeFails)
                \/ gguf_cancel(t, h)
                \/ IsCancelled(t, h)
                \/ GetProgress(t, h) ) =>
                  /\ progress' = progress
                  /\ current_stage' = current_stage
                  /\ ProgressEvents(t)' = << >>
        /\ \A t \in Threads :
              (\E hasParams \in BOOLEAN : gguf_create_context(t, hasParams)) =>
                  /\ \A c \in Ctxs :
                        IF alive[c] \/ ~alive'[c]
                        THEN /\ progress'[c] = progress[c]
                             /\ current_stage'[c] = current_stage[c]
                        ELSE progress'[c] = 0
                  /\ ProgressEvents(t)' = << >>
        /\ \A c \in Ctxs :
              ( /\ alive[c] /\ alive'[c]
                /\ \/ progress'[c] # progress[c]
                   \/ current_stage'[c] # current_stage[c] ) =>
                  \E t \in Threads :
                      \/ gguf_convert(t, c)
                      \/ ConvertStep(t) /\ cur[t] = c
      ]_vars

C26_Witness ==
    \E c \in Ctxs :
        /\ alive[c]
        /\ params[c].progress_cb
        /\ pc["t1"] = "hf_wait"
        /\ cur["t1"] = c
        /\ progress[c] = 30
        /\ current_stage[c] = "Executing conversion script"
        /\ ret["t2"] = Returned("cancel", 0)
        /\ events["t2"] = << Log(2, "Cancellation requested", "") >>

\* ------------------------------------------------------------------------
\* Properties of the order of the detection rules
\* ------------------------------------------------------------------------
\* C27: gguf_detect_format returns the null pointer for a path that does
\* not exist; for an existing path without the .gguf extension the first
\* rule that matches decides: the contents of a directory in the order
\* safetensors/pytorch, tensorflow (saved_model.pb or tf_model.h5), flax
\* (flax_model.msgpack), and only then the extension (.bin/.pt/.pth,
\* .safetensors, .h5/.pb, .msgpack); a path that matches no rule yields the
\* null pointer.
C27_DetectionOrder ==
    \A t \in Threads :
        Detected(t) =>
            LET p == Path(call[t].input)
                ext == Extension(p)
                has(name) == p \in FsDirs /\ Append(p, name) \in FsFiles
                st == has("model.safetensors")
                pt == has("pytorch_model.bin")
                        \/ has("pytorch_model-00001-of-00002.bin")
                tf == has("saved_model.pb") \/ has("tf_model.h5")
                fx == has("flax_model.msgpack")
            IN  /\ ret[t] = Returned("detect_format",
                                     IF format_str[t] = "" THEN 0 ELSE 1)
                /\ (p \notin FsDirs /\ p \notin FsFiles) => format_str[t] = ""
                /\ ((p \in FsDirs \/ p \in FsFiles) /\ ext # ".gguf") =>
                      /\ st => format_str[t] = "safetensors"
                      /\ (pt /\ ~st) => format_str[t] = "pytorch"
                      /\ (tf /\ ~st /\ ~pt) => format_str[t] = "tensorflow"
                      /\ (fx /\ ~st /\ ~pt /\ ~tf) => format_str[t] = "flax"
                      /\ (~st /\ ~pt /\ ~tf /\ ~fx) =>
                            format_str[t] =
                              CASE ext \in { ".bin", ".pt", ".pth" } -> "pytorch"
                                [] ext = ".safetensors" -> "safetensors"
                                [] ext \in { ".h5", ".pb" } -> "tensorflow"
                                [] ext = ".msgpack" -> "flax"
                                [] OTHER -> ""

C27_Witness ==
    \E t \in Threads :
        /\ Detected(t)
        /\ call[t].input = "d.bin"
        /\ << "d.bin" >> \in FsDirs
        /\ << "d.bin", "flax_model.msgpack" >> \in FsFiles
        /\ format_str[t] = "flax"
        /\ ret[t] = Returned("detect_format", 1)

\* ------------------------------------------------------------------------
\* Properties of validation followed by conversion
\* ------------------------------------------------------------------------
\* C28: when gguf_validate_input returned GGUF_SUCCESS on a context (its
\* input has a detected format), a gguf_convert call that follows, with an
\* enumerated quantization identifier and no cancellation (and no
\* exception), does not return GGUF_ERROR_INVALID_FORMAT, and it runs the
\* in-process quantization when the detected tag is gguf and the external
\* process for every other tag.
C28_ValidateAgreesWithDispatch ==
    \A t \in Threads :
        ( /\ InConvert(t)
          /\ ret[t].how = "returned"
          /\ ret[t].code # GGUF_ERROR_CANCELLED
          /\ call[t].quant \in EnumeratedQuantizations
          /\ ~Caught(t)
          /\ detect_format_impl(Path(call[t].input)) # "" ) =>
            /\ ret[t].code # GGUF_ERROR_INVALID_FORMAT
            /\ IF detect_format_impl(Path(call[t].input)) = "gguf"
               THEN Invoked(t, "llama_model_quantize") /\ ~Invoked(t, "system")
               ELSE Invoked(t, "system") /\ ~Invoked(t, "llama_model_quantize")

\* ------------------------------------------------------------------------
\* Properties of polling during a conversion
\* ------------------------------------------------------------------------
\* C29: while one gguf_convert call runs on a context and another thread
\* polls it, every value gguf_get_progress returns is the stored progress,
\* which is one of 0.0, 0.1, 0.2, 0.3, 1.0; the stored progress of a living
\* context never decreases from one step to the next, so that the values
\* of successive polls do not decrease; and every value the progress
\* callback has received is at most the stored progress (the store comes
\* before the callback).
C29_PollMonotonic ==
    [][ /\ \A t \in Threads, c \in Ctxs :
              GetProgress(t, c) =>
                  /\ ret'[t] = Returned("get_progress", progress[c])
                  /\ \E i \in 1 .. Len(Checkpoints) : progress[c] = Checkpoints[i]
        /\ \A c \in Ctxs :
              (alive[c] /\ alive'[c]) => progress'[c] >= progress[c]
        /\ \A t \in Threads :
              (pc'[t] # "idle" \/ pc[t] # "idle") =>
                  \A i \in 1 .. Len(ProgressEvents(t)') :
                      ProgressEvents(t)'[i].num <= progress'[cur'[t]]
      ]_vars

C29_Witness ==
    \E c \in Ctxs :
        /\ alive[c]
        /\ pc["t1"] = "q_wait"
        /\ cur["t1"] = c
        /\ params[c].progress_cb
        /\ Len(ProgressEvents("t1")) = 4
        /\ ret["t2"] = Returned("get_progress", 30)

\* ------------------------------------------------------------------------
\* Properties of the callbacks
\* ------------------------------------------------------------------------
\* Thread t is inside a user callback of the context cur[t].
InCallback(t) == pc[t] \in { "start_log", "cancel_log" }

\* C30: the user callbacks of one context are never executed by two
\* threads at the same time: while the converting thread is inside a
\* callback of a context, the thread that calls gguf_cancel on that context
\* is not inside its log callback.
C30_CallbacksSerialized ==
    \A t \in Threads, u \in Threads :
        ( t # u /\ InCallback(t) /\ InCallback(u) ) => cur[t] # cur[u]

====
